---- MODULE Spec2Model ----
(***************************************************************************)
(* Drive_easy front end: the login screen (app/index.tsx), the admin       *)
(* dashboard (app/admin/dashboard.tsx), the driver dashboards              *)
(* (app/driver/dashboard.tsx, app/driver/simple-dashboard.tsx) and the     *)
(* customer tracking screen (app/track/[token].tsx).                       *)
(*                                                                         *)
(* Every screen is a React function component.  Its useState cells are the *)
(* fields of one record variable; a handler is one action, split only at   *)
(* an await on the network or at a timer.  A function created by a render  *)
(* reads the state of THAT render: a callback that is installed once (by   *)
(* an effect with fixed dependencies, by a socket, by a timer) carries the *)
(* values it captured, and the model stores them with the callback.        *)
(***************************************************************************)
EXTENDS Integers, Sequences, FiniteSets, Bags, TLC

VARIABLES
    storage,    \* AsyncStorage: the items the screens read and write
    route,      \* the route expo-router shows
    login,      \* state of LoginScreen
    driver,     \* state of DriverDashboard: session, socket, location watch
    cards,      \* state of DriverDashboard: delivery list, map modal, navigation
    simple,     \* state of SimpleDriverDashboard
    admin,      \* state of AdminDashboard
    fleet,      \* the server's deliveries as the dashboards load them
    track,      \* state of TrackingScreen
    srv,        \* the server's record of the tracked delivery
    legacy      \* state of the earlier DriverDashboard (unnamed/part_001)

vars ==
    <<storage, route, login, driver, cards, simple, admin, fleet, track, srv, legacy>>

\* Groups of variables an action of another screen leaves alone.
navVars == <<storage, route, login>>
driverVars == <<driver, cards>>
trackVars == <<track, srv>>

None == "none"
Undefined == -1000      \* a numeric field that is absent (JavaScript undefined)

(***************************************************************************)
(* Bounds of the model.                                                    *)
(***************************************************************************)
MaxOrphans == 1      \* tracking sockets and timers pending besides wsRef.current
MaxLoads == 2        \* loadTrackingInfo / loadDeliveries requests in flight at once
MaxSockets == 2      \* WebSocket objects one mount of the driver dashboard makes
MaxRequests == 1     \* requests of a dashboard's buttons in flight at once
MaxListLoads == 1    \* loadDeliveries a dashboard's buttons have in flight at once

(***************************************************************************)
(* Delivery statuses.  The tracking screen's Delivery type knows created,  *)
(* assigned, in_progress, delivered and cancelled; the dashboards send and *)
(* show pending, assigned, picked_up, in_transit and delivered.  The       *)
(* server may hold any of them.                                            *)
(***************************************************************************)
Statuses ==
    {"created", "pending", "assigned", "picked_up", "in_progress",
     "in_transit", "delivered", "cancelled"}

\* Position of a status in the lifecycle
\* created -> assigned -> picked_up -> in_transit -> delivered (cancelled last).
Rank(s) ==
    CASE s \in {"created", "pending"} -> 0
      [] s = "assigned" -> 1
      [] s = "picked_up" -> 2
      [] s \in {"in_progress", "in_transit"} -> 3
      [] s = "delivered" -> 4
      [] OTHER -> 5

(***************************************************************************)
(*                 STORAGE, ROUTES AND THE LOGIN SCREEN  app/index.tsx     *)
(***************************************************************************)

\* Accounts the server knows: data.user of an ok response.
NoUser == [id |-> None, role |-> None]
Accounts == {[id |-> "u1", role |-> "driver"], [id |-> "u2", role |-> "admin"]}
DriverAccount == CHOOSE u \in Accounts : u.role = "driver"
AdminAccount == CHOOSE u \in Accounts : u.role = "admin"

\* JSON.stringify / JSON.parse of a user record; NoItem is getItem's null.
Stringify(user) == [json |-> user]
Parse(item) == item.json
NoItem == Stringify(NoUser)

\* The items by key.  AsyncStorage outlives the running code: what it holds
\* when the app starts is an input.
StorageKeys == {"authToken", "user", "userData"}
EmptyStorage == [k \in StorageKeys |-> NoItem]
TokenItem == [json |-> [id |-> "jwt", role |-> None]]
StoredSession(user) ==
    [EmptyStorage EXCEPT !["authToken"] = TokenItem, !["userData"] = Stringify(user)]
InitialStorages == {EmptyStorage} \cup {StoredSession(u) : u \in Accounts}

\* AsyncStorage.getItem, setItem, multiRemove.
getItem(st, key) == st[key]
setItem(st, key, item) == [st EXCEPT ![key] = item]
multiRemove(st, keys) == [k \in StorageKeys |-> IF k \in keys THEN NoItem ELSE st[k]]

LoginRoute == "/"
SimpleRoute == "/driver/simple-dashboard"
TrackRoute == "/track/[token]"
DriverRoute == "/driver/dashboard"
AdminRoute == "/admin/dashboard"

\* navigateToApp (lines 55-61): the route of the user's role.
navigateToApp(user) == IF user.role = "admin" THEN AdminRoute ELSE DriverRoute

\* LoginScreen's useState cells (lines 29-35); a text field is empty or filled.
\* request is the fetch handleLogin or handleRegister awaits.
LoginInit ==
    [checked |-> FALSE, email |-> FALSE, password |-> FALSE, name |-> FALSE,
     phone |-> FALSE, isLogin |-> TRUE, role |-> "driver", loading |-> FALSE,
     request |-> None]

\* userLocation (lines 48-54) before any position is known.
NoUserLocation ==
    [latitude |-> Undefined, longitude |-> Undefined, heading |-> Undefined,
     speed |-> Undefined, accuracy |-> Undefined]

\* DriverDashboard's session state at its first render (lines 58-71), the
\* timers and awaits of its startup and the objects it creates.
\*   startup: the 100 ms timer of line 115 and the loadDeliveries it awaits;
\*   timer500, timer1000: the timers of lines 118 and 122;
\*   locating: the await requestLocationPermissions is at;
\*   trackTimer: the timer of line 165; watchRequest: watchPositionAsync awaited;
\*   locationSubscription: the ref is set; watchers: subscriptions delivering;
\*   sockets: the WebSocket objects made; websocket: the state cell (0 is
\*   null, otherwise the position of the socket in sockets);
\*   reconnectTimers: timers of line 282 pending; sent: what send() was given.
DriverInit ==
    [mounted |-> FALSE, checked |-> FALSE, user |-> NoUser,
     startup |-> None, timer500 |-> FALSE, timer1000 |-> FALSE,
     locating |-> None, trackTimer |-> FALSE, watchRequest |-> FALSE,
     locationSubscription |-> FALSE, watchers |-> 0, isLocationTracking |-> FALSE,
     userLocation |-> NoUserLocation,
     sockets |-> <<>>, websocket |-> 0, reconnectTimers |-> 0, sent |-> <<>>]

\* What the functions of the first render read: checkAuthAndLoad is called by
\* the mount effect (deps [], line 84), so the functions it reaches, the
\* callbacks they install and the effect's cleanup are those of that render.
FirstRender == [user |-> DriverInit.user, websocket |-> DriverInit.websocket]

\* A state setter: React ignores it once the component is unmounted.
setState(d, cell, value) == IF d.mounted THEN [d EXCEPT ![cell] = value] ELSE d

\* stopLocationTracking (lines 228-234).
stopLocationTracking(d) ==
    [setState(d, "isLocationTracking", FALSE) EXCEPT
        !.watchers = IF d.locationSubscription THEN @ - 1 ELSE @,
        !.locationSubscription = FALSE]

\* `if (websocket) websocket.close()` for the value ws of the websocket cell
\* (lines 80-82, 435-437).  clientClosed records that the client asked.
closeWebsocket(d, ws) ==
    IF ws # 0 /\ d.sockets[ws].readyState \in {"CONNECTING", "OPEN"}
    THEN [d EXCEPT !.sockets[ws].readyState = "CLOSING",
                   !.sockets[ws].clientClosed = TRUE]
    ELSE d

\* The cleanup of the mount effect (lines 78-83), then the component is gone.
DriverUnmount(d) ==
    IF d.mounted
    THEN [closeWebsocket(stopLocationTracking(d), FirstRender.websocket)
             EXCEPT !.mounted = FALSE]
    ELSE d

\* The deliveries the server lists for the driver, by id.
DeliveryIds == {"d1", "d2"}

\* The delivery list, the map modal and the navigation state (lines 59-66).
\* deliveries maps an id to the status listed for it (None: not listed); a
\* Delivery object is its id and the status it was listed with.  loads are
\* the loadDeliveries calls awaiting their answer, requests the other calls
\* awaiting theirs, confirm the delivery the 'Complete Delivery' alert asks
\* about.
NoDelivery == [id |-> None, status |-> None]
NoDeliveries == [i \in DeliveryIds |-> None]
CardsInit ==
    [deliveries |-> NoDeliveries, loading |-> TRUE,
     refreshing |-> FALSE, selectedDelivery |-> NoDelivery,
     mapModalVisible |-> FALSE, navigationActive |-> FALSE,
     loads |-> 0, requests |-> {}, confirm |-> NoDelivery]

\* The fields of the new-delivery form createDelivery looks at (lines 62-69),
\* each empty or filled, and the form as useState makes it.
FormFields ==
    {"customer_name", "customer_phone", "customer_email", "pickup_address",
     "delivery_address"}
EmptyForm == [f \in FormFields |-> FALSE]

\* AdminDashboard's state at its first render (lines 51-72).  A form field is
\* empty or filled; linkRequest and assignRequest are the requests awaited,
\* createRequest the form the create request awaited carries (EmptyForm,
\* which is never sent, when none is awaited).
AdminInit ==
    [mounted |-> FALSE, checked |-> FALSE, user |-> NoUser,
     deliveries |-> NoDeliveries, driversLoaded |-> FALSE,
     loading |-> TRUE, loads |-> 0, driverLoads |-> 0,
     assignModalVisible |-> FALSE, trackingModalVisible |-> FALSE,
     selectedDelivery |-> NoDelivery, selectedDriverId |-> None,
     trackingUrl |-> None, pressed |-> NoDelivery,
     linkRequest |-> NoDelivery, assignRequest |-> NoDelivery,
     createModalVisible |-> FALSE, formData |-> EmptyForm,
     createRequest |-> EmptyForm]

\* SimpleDriverDashboard's state at its first render (lines 33-36).
SimpleInit ==
    [mounted |-> FALSE, checked |-> FALSE, user |-> NoUser,
     deliveries |-> NoDeliveries, loading |-> TRUE, refreshing |-> FALSE,
     loads |-> 0, requests |-> {}]

\* The earlier DriverDashboard of unnamed/part_001 at its first render
\* (lines 36-40); its mount effect (lines 42-45) calls loadDeliveries.
LegacyRoute == "/driver/dashboard (part_001)"
LegacyInit ==
    [mounted |-> FALSE, deliveries |-> NoDeliveries, loading |-> FALSE,
     loads |-> 0, requests |-> {}]

\* The deliveries as the server holds them when the app starts.
FleetInit == [i \in DeliveryIds |-> IF i = "d1" THEN "assigned" ELSE "pending"]

\* router.replace(r): the screen shown goes away and r's screen is built.
\* d is the driver dashboard's state when the call is made.
ShowFrom(d, r) ==
    /\ route' = r
    /\ login' = LoginInit
    /\ driver' = IF r = DriverRoute
                 THEN [DriverInit EXCEPT !.mounted = TRUE]
                 ELSE DriverUnmount(d)
    /\ cards' = IF r = DriverRoute THEN CardsInit ELSE cards
    /\ simple' = IF r = SimpleRoute
                 THEN [SimpleInit EXCEPT !.mounted = TRUE]
                 ELSE [simple EXCEPT !.mounted = FALSE]
    /\ admin' = IF r = AdminRoute
                THEN [AdminInit EXCEPT !.mounted = TRUE]
                ELSE [admin EXCEPT !.mounted = FALSE]

Show(r) == ShowFrom(driver, r)

\* checkExistingLogin (lines 41-53), run by the mount effect.
LoginCheckExisting ==
    /\ route = LoginRoute /\ ~login.checked
    /\ LET token == getItem(storage, "authToken")
           userStr == getItem(storage, "user")
       IN IF token # NoItem /\ userStr # NoItem
          THEN Show(navigateToApp(Parse(userStr)))
          ELSE /\ login' = [login EXCEPT !.checked = TRUE]
               /\ UNCHANGED <<route, driverVars, simple, admin>>
    /\ UNCHANGED <<storage, fleet, trackVars, legacy>>

\* onChangeText of a text input, the mode switch and the role buttons.
LoginFields == {"email", "password", "name", "phone"}

LoginEdit(field, filled) ==
    /\ route = LoginRoute
    /\ login' = [login EXCEPT ![field] = filled]
    /\ UNCHANGED <<storage, route, driverVars, simple, admin, fleet, trackVars, legacy>>

LoginToggleMode ==
    /\ route = LoginRoute
    /\ login' = [login EXCEPT !.isLogin = ~@]
    /\ UNCHANGED <<storage, route, driverVars, simple, admin, fleet, trackVars, legacy>>

LoginSetRole(r) ==
    /\ route = LoginRoute /\ ~login.isLogin
    /\ login' = [login EXCEPT !.role = r]
    /\ UNCHANGED <<storage, route, driverVars, simple, admin, fleet, trackVars, legacy>>

\* handleLogin up to its fetch (lines 63-78); the button is disabled while
\* loading (line 245).
handleLogin(l) ==
    IF ~l.email \/ ~l.password THEN l
    ELSE [l EXCEPT !.loading = TRUE, !.request = "login"]

\* handleRegister up to its fetch (lines 97-118).
handleRegister(l) ==
    IF ~l.email \/ ~l.password \/ ~l.name \/ ~l.phone THEN l
    ELSE [l EXCEPT !.loading = TRUE, !.request = "register"]

LoginSubmit ==
    /\ route = LoginRoute /\ ~login.loading
    /\ login' = IF login.isLogin THEN handleLogin(login) ELSE handleRegister(login)
    /\ UNCHANGED <<storage, route, driverVars, simple, admin, fleet, trackVars, legacy>>

\* What the server can answer: ok with a token and the account, a rejection
\* (response.ok false), or no answer (fetch throws).
AuthOutcomes(l) ==
    { [kind |-> "ok", user |-> u] :
         u \in {a \in Accounts : l.request = "register" => a.role = l.role} }
    \cup { [kind |-> "rejected", user |-> NoUser], [kind |-> "network", user |-> NoUser] }

\* An answer whose token is stored whatever response.ok says.
StoreLogin_Always(st, outcome) ==
    setItem(setItem(st, "authToken", TokenItem), "user", Stringify(outcome.user))

\* The storage after the answer (lines 82-85, 122-125).
StoreLogin(st, outcome) ==
    IF outcome.kind = "ok"
    THEN setItem(setItem(st, "authToken", TokenItem), "user", Stringify(outcome.user))
    ELSE st

\* The route after the answer (lines 86-91, 126-131): navigateToApp on ok, an
\* alert over the login screen otherwise.
RouteAfterLogin(outcome) ==
    IF outcome.kind = "ok" THEN navigateToApp(outcome.user) ELSE LoginRoute

\* handleLogin / handleRegister after the fetch (lines 80-94, 120-134).
LoginResponse(outcome) ==
    /\ route = LoginRoute /\ login.request # None
    /\ outcome \in AuthOutcomes(login)
    /\ storage' = StoreLogin(storage, outcome)
    /\ IF RouteAfterLogin(outcome) # LoginRoute
       THEN Show(RouteAfterLogin(outcome))
       ELSE /\ login' = [login EXCEPT !.loading = FALSE, !.request = None]
            /\ UNCHANGED <<route, driverVars, simple, admin>>
    /\ UNCHANGED <<fleet, trackVars, legacy>>

(***************************************************************************)
(*  DRIVER DASHBOARD  app/driver/dashboard.tsx: session                    *)
(***************************************************************************)

\* A checkAuthAndLoad without the role test of lines 105-110.
AuthorizedUser_AnyRole(st, role) ==
    IF getItem(st, "authToken") = NoItem \/ getItem(st, "userData") = NoItem
    THEN NoUser
    ELSE Parse(getItem(st, "userData"))

\* checkAuthAndLoad up to setUser (lines 95-112): the user it sets, or NoUser
\* when it navigates to '/'.
AuthorizedUser(st, role) ==
    LET token == getItem(st, "authToken")
        userData == getItem(st, "userData")
    IN IF token = NoItem \/ userData = NoItem THEN NoUser
       ELSE IF Parse(userData).role # role THEN NoUser
       ELSE Parse(userData)

\* checkAuthAndLoad of the driver dashboard (lines 95-131), run by the mount
\* effect: on success the 100 ms timer of line 115 is armed, and the render
\* with user set runs the focus effect (lines 87-93), which calls
\* loadDeliveries.
DriverCheckAuth ==
    /\ route = DriverRoute /\ driver.mounted /\ ~driver.checked
    /\ LET u == AuthorizedUser(storage, "driver")
       IN IF u = NoUser
          THEN Show(LoginRoute)
          ELSE /\ driver' = [driver EXCEPT !.checked = TRUE, !.user = u,
                                           !.startup = "timer100"]
               /\ cards' = [cards EXCEPT !.loads = @ + 1]
               /\ UNCHANGED <<route, login, simple, admin>>
    /\ UNCHANGED <<storage, fleet, trackVars, legacy>>

\* loadDeliveries after its await (lines 307-313) on the list state c: the
\* answer lists the server's deliveries, or the request fails.
ApplyDeliveries(c, mounted, ok, list) ==
    IF mounted
    THEN [c EXCEPT !.deliveries = IF ok THEN list ELSE @,
                   !.loading = FALSE, !.refreshing = FALSE]
    ELSE c

\* The 100 ms timer of line 115 fires: loadDeliveries is awaited.
DriverTimer100 ==
    /\ driver.startup = "timer100"
    /\ driver' = [driver EXCEPT !.startup = "loading"]
    /\ UNCHANGED <<navVars, cards, simple, admin, fleet, trackVars, legacy>>

\* That loadDeliveries answers: the timers of lines 118 and 122 are armed.
DriverStartupLoaded(ok) ==
    /\ driver.startup = "loading"
    /\ cards' = ApplyDeliveries(cards, driver.mounted, ok, fleet)
    /\ driver' = [driver EXCEPT !.startup = "done", !.timer500 = TRUE,
                                !.timer1000 = TRUE]
    /\ UNCHANGED <<navVars, simple, admin, fleet, trackVars, legacy>>

\* A loadDeliveries of the focus effect, of a button or of a message answers.
DriverLoadResponse(ok) ==
    /\ cards.loads > 0
    /\ cards' = [ApplyDeliveries(cards, driver.mounted, ok, fleet)
                    EXCEPT !.loads = @ - 1]
    /\ UNCHANGED <<navVars, driver, simple, admin, fleet, trackVars, legacy>>

\* Position samples of the device: heading, speed and accuracy may be absent.
Samples ==
    { [latitude |-> 40, longitude |-> -74, heading |-> 90, speed |-> 5,
       accuracy |-> 3],
      [latitude |-> 41, longitude |-> -73, heading |-> Undefined,
       speed |-> Undefined, accuracy |-> Undefined] }

\* `x || 0` (lines 159-161, 201-203).
OrZero(x) == IF x = Undefined THEN 0 ELSE x

\* The UserLocation built from a sample's coords (lines 156-162, 198-204).
NewLocation(coords) ==
    [latitude |-> coords.latitude, longitude |-> coords.longitude,
     heading |-> OrZero(coords.heading), speed |-> OrZero(coords.speed),
     accuracy |-> OrZero(coords.accuracy)]

\* The default location of lines 172-178, in 1e-4 degrees.
DefaultLatitude == 377749
DefaultLongitude == -1224194
DefaultLocation ==
    [latitude |-> DefaultLatitude, longitude |-> DefaultLongitude,
     heading |-> 0, speed |-> 0, accuracy |-> 0]

\* The 500 ms timer fires: requestLocationPermissions up to its first await.
DriverTimer500 ==
    /\ driver.timer500
    /\ driver' = [driver EXCEPT !.timer500 = FALSE, !.locating = "permission"]
    /\ UNCHANGED <<navVars, cards, simple, admin, fleet, trackVars, legacy>>

\* requestForegroundPermissionsAsync answers (lines 135-143).
DriverPermission(granted) ==
    /\ driver.locating = "permission"
    /\ driver' = [driver EXCEPT !.locating = IF granted THEN "position" ELSE None]
    /\ UNCHANGED <<navVars, cards, simple, admin, fleet, trackVars, legacy>>

\* The race of lines 147-154 ends with a position, or rejects.
PositionOutcomes ==
    {[ok |-> TRUE, coords |-> c] : c \in Samples}
    \cup {[ok |-> FALSE, coords |-> NoUserLocation]}

\* requestLocationPermissions after that await (lines 156-178).
onPosition(d, outcome) ==
    IF outcome.ok
    THEN [setState(d, "userLocation", NewLocation(outcome.coords))
             EXCEPT !.locating = None, !.trackTimer = TRUE]
    ELSE [setState(d, "userLocation", DefaultLocation) EXCEPT !.locating = None]

DriverPosition(outcome) ==
    /\ driver.locating = "position"
    /\ driver' = onPosition(driver, outcome)
    /\ UNCHANGED <<navVars, cards, simple, admin, fleet, trackVars, legacy>>

\* A startLocationTracking without the test of lines 186-188.
startLocationTracking_NoGuard(d) == [d EXCEPT !.watchRequest = TRUE]

\* The timer of line 165 fires: startLocationTracking up to its await
\* (lines 185-191).
startLocationTracking(d) ==
    IF d.locationSubscription THEN d ELSE [d EXCEPT !.watchRequest = TRUE]

DriverTrackTimer ==
    /\ driver.trackTimer
    /\ driver' = startLocationTracking([driver EXCEPT !.trackTimer = FALSE])
    /\ UNCHANGED <<navVars, cards, simple, admin, fleet, trackVars, legacy>>

\* watchPositionAsync answers (lines 191, 222-225).
DriverWatchStarted(ok) ==
    /\ driver.watchRequest
    /\ driver' =
          IF ok
          THEN [setState(driver, "isLocationTracking", TRUE)
                   EXCEPT !.watchRequest = FALSE, !.locationSubscription = TRUE,
                          !.watchers = @ + 1]
          ELSE [driver EXCEPT !.watchRequest = FALSE]
    /\ UNCHANGED <<navVars, cards, simple, admin, fleet, trackVars, legacy>>

\* The message of lines 211-214; the timestamp is the clock's.
Now == "now"
LocationMessage(newLocation) ==
    [latitude |-> newLocation.latitude, longitude |-> newLocation.longitude,
     heading |-> newLocation.heading, speed |-> newLocation.speed,
     accuracy |-> newLocation.accuracy, timestamp |-> Now]

\* `websocket && websocket.readyState === WebSocket.OPEN` for a value ws of
\* the websocket cell (lines 209, 238).
IsOpen(d, ws) == ws # 0 /\ d.sockets[ws].readyState = "OPEN"

\* The watcher's callback (lines 197-219), made by the render cl.
onSample(d, cl, coords) ==
    LET newLocation == NewLocation(coords)
        d1 == setState(d, "userLocation", newLocation)
    IN IF IsOpen(d, cl.websocket)
       THEN [d1 EXCEPT !.sent = Append(@, [socket |-> cl.websocket,
                                           message |-> LocationMessage(newLocation)])]
       ELSE d1

DriverSample(coords) ==
    /\ driver.watchers > 0
    /\ driver' = onSample(driver, FirstRender, coords)
    /\ UNCHANGED <<navVars, cards, simple, admin, fleet, trackVars, legacy>>

\* connectWebSocket (lines 236-298) of the render cl: a new socket with its
\* connection timeout armed, unless that render's websocket is open.
connectWebSocket(d, cl, driverId) ==
    IF IsOpen(d, cl.websocket) THEN d
    ELSE [d EXCEPT !.sockets =
             Append(@, [driverId |-> driverId, readyState |-> "CONNECTING",
                        timeout |-> TRUE, clientClosed |-> FALSE])]

\* A timer of line 122 that stays armed after it fired (an interval).
DriverTimer1000_Repeats ==
    /\ driver.timer1000
    /\ Len(driver.sockets) < MaxSockets
    /\ driver' = connectWebSocket(driver, FirstRender, driver.user.id)
    /\ UNCHANGED <<navVars, cards, simple, admin, fleet, trackVars, legacy>>

\* The 1000 ms timer of line 122 fires.
DriverTimer1000 ==
    /\ driver.timer1000
    /\ Len(driver.sockets) < MaxSockets
    /\ driver' = connectWebSocket([driver EXCEPT !.timer1000 = FALSE],
                                  FirstRender, driver.user.id)
    /\ UNCHANGED <<navVars, cards, simple, admin, fleet, trackVars, legacy>>

\* An onopen that leaves the connection timeout armed.
DriverSocketOpen_KeepsTimer(i) ==
    /\ driver.sockets[i].readyState = "CONNECTING"
    /\ driver' = setState([driver EXCEPT !.sockets[i].readyState = "OPEN"],
                          "websocket", i)
    /\ UNCHANGED <<navVars, cards, simple, admin, fleet, trackVars, legacy>>

\* ws.onopen (lines 254-258).
DriverSocketOpen(i) ==
    /\ driver.sockets[i].readyState = "CONNECTING"
    /\ driver' = setState([driver EXCEPT !.sockets[i].readyState = "OPEN",
                                         !.sockets[i].timeout = FALSE],
                          "websocket", i)
    /\ UNCHANGED <<navVars, cards, simple, admin, fleet, trackVars, legacy>>

\* The connection timeout fires (lines 247-252).
DriverConnectionTimeout(i) ==
    /\ driver.sockets[i].timeout
    /\ driver' = IF driver.sockets[i].readyState = "CONNECTING"
                 THEN [driver EXCEPT !.sockets[i].timeout = FALSE,
                                     !.sockets[i].readyState = "CLOSING",
                                     !.sockets[i].clientClosed = TRUE]
                 ELSE [driver EXCEPT !.sockets[i].timeout = FALSE]
    /\ UNCHANGED <<navVars, cards, simple, admin, fleet, trackVars, legacy>>

\* ws.onerror (lines 289-293) and ws.onclose (lines 277-287) of socket i.
onerror(d, i) == setState([d EXCEPT !.sockets[i].timeout = FALSE], "websocket", 0)

onclose(d, i) ==
    [setState([d EXCEPT !.sockets[i].timeout = FALSE,
                        !.sockets[i].readyState = "CLOSED"], "websocket", 0)
        EXCEPT !.reconnectTimers = @ + 1]

\* Socket i ends: the server or the network closes it, a close() completes,
\* or the connection fails (error, then close).
DriverSocketClose(i, failed) ==
    /\ driver.sockets[i].readyState \in {"CONNECTING", "OPEN", "CLOSING"}
    /\ driver' = onclose(IF failed THEN onerror(driver, i) ELSE driver, i)
    /\ UNCHANGED <<navVars, cards, simple, admin, fleet, trackVars, legacy>>

\* The timer of lines 282-286, armed by the onclose of the render cl.
reconnectTimer(d, cl) ==
    IF cl.user # NoUser THEN connectWebSocket(d, cl, cl.user.id) ELSE d

DriverReconnectTimer ==
    /\ driver.reconnectTimers > 0
    /\ Len(driver.sockets) < MaxSockets
    /\ driver' = reconnectTimer([driver EXCEPT !.reconnectTimers = @ - 1], FirstRender)
    /\ UNCHANGED <<navVars, cards, simple, admin, fleet, trackVars, legacy>>

\* The message events of a driver socket: event.data is JSON text with a
\* type the handler knows or not, or text JSON.parse throws on.
DriverMessageTypes == {"location_ack", "delivery_assigned", "pong"}
DriverMessages ==
    {[parsable |-> TRUE, type |-> t] : t \in DriverMessageTypes}
    \cup {[parsable |-> FALSE, type |-> None]}

\* A handler that reloads the list on an acknowledgement as well.
onmessage_AckReloads(c, event) ==
    IF event.parsable /\ event.type \in {"location_ack", "delivery_assigned"}
    THEN [c EXCEPT !.loads = @ + 1]
    ELSE c

\* ws.onmessage (lines 260-275) on the list state c: JSON.parse throws into
\* the catch, location_ack does nothing, delivery_assigned calls
\* loadDeliveries, any other type matches no branch.
onmessage(c, event) ==
    IF ~event.parsable THEN c
    ELSE IF event.type = "location_ack" THEN c
    ELSE IF event.type = "delivery_assigned" THEN [c EXCEPT !.loads = @ + 1]
    ELSE c

DriverOnMessage(i, event) ==
    /\ driver.sockets[i].readyState = "OPEN"
    /\ onmessage(cards, event).loads <= MaxLoads
    /\ cards' = onmessage(cards, event)
    /\ UNCHANGED <<navVars, driver, simple, admin, fleet, trackVars, legacy>>

\* handleLogout's 'Logout' button (lines 432-439): the items are removed, the
\* watch is stopped, the socket of the current render's websocket cell is
\* closed, then '/' is shown.
handleLogout(d) == closeWebsocket(stopLocationTracking(d), d.websocket)

\* The header with the Logout button is drawn once user is set and the first
\* load has answered (lines 658-676).
DriverMainShown ==
    /\ route = DriverRoute /\ driver.mounted /\ driver.user # NoUser
    /\ ~(cards.loading /\ cards.deliveries = NoDeliveries)

DriverLogout ==
    /\ DriverMainShown
    /\ storage' = multiRemove(storage, {"authToken", "userData"})
    /\ ShowFrom(handleLogout(driver), LoginRoute)
    /\ UNCHANGED <<fleet, trackVars, legacy>>

(***************************************************************************)
(*  ADMIN DASHBOARD  app/admin/dashboard.tsx: session                      *)
(***************************************************************************)

\* checkAuthAndLoad (lines 89-112), run by the mount effect: on success
\* loadDeliveries and loadDrivers are awaited together, and the render with
\* user set runs the focus effect (lines 80-87), which calls both again.
AdminCheckAuth ==
    /\ route = AdminRoute /\ admin.mounted /\ ~admin.checked
    /\ LET u == AuthorizedUser(storage, "admin")
       IN IF u = NoUser
          THEN Show(LoginRoute)
          ELSE /\ admin' = [admin EXCEPT !.checked = TRUE, !.user = u,
                                         !.loads = @ + 2, !.driverLoads = @ + 2]
               /\ UNCHANGED <<route, login, driverVars, simple>>
    /\ UNCHANGED <<storage, fleet, trackVars, legacy>>

\* loadDeliveries of the admin dashboard after its await (lines 120-128).
AdminLoadResponse(ok) ==
    /\ admin.loads > 0
    /\ admin' = [ApplyDeliveries(admin, admin.mounted, ok, fleet)
                    EXCEPT !.loads = @ - 1]
    /\ UNCHANGED <<navVars, driverVars, simple, fleet, trackVars, legacy>>

\* loadDrivers after its await (lines 137-141).
AdminDriversResponse(ok) ==
    /\ admin.driverLoads > 0
    /\ admin' = [(IF ok THEN setState(admin, "driversLoaded", TRUE) ELSE admin)
                    EXCEPT !.driverLoads = @ - 1]
    /\ UNCHANGED <<navVars, driverVars, simple, fleet, trackVars, legacy>>

\* The dashboard is drawn unless loading with an empty list (line 554).
AdminMainShown ==
    /\ route = AdminRoute /\ admin.mounted
    /\ ~(admin.loading /\ admin.deliveries = NoDeliveries)

\* handleLogout's 'Logout' button (lines 260-275).
AdminLogout ==
    /\ AdminMainShown
    /\ storage' = multiRemove(storage, {"authToken", "userData"})
    /\ Show(LoginRoute)
    /\ UNCHANGED <<fleet, trackVars, legacy>>

(***************************************************************************)
(*                    TRACKING SCREEN  app/track/[token].tsx               *)
(***************************************************************************)

\* Route parameters: a token the server knows, one it does not, and none.
GoodToken == "tok"
BadToken == "bad"
Tokens == {GoodToken, BadToken}

\* location_update messages the server may push (heading and speed optional).
LocationMessages ==
    { [type |-> "location_update", lat |-> 37, lng |-> -122, heading |-> 90,
       speed |-> 5, timestamp |-> 1, driver_id |-> "d1"],
      [type |-> "location_update", lat |-> 38, lng |-> -121, heading |-> Undefined,
       speed |-> Undefined, timestamp |-> 2, driver_id |-> "d1"] }

\* The location object onmessage builds from a message (lines 98-104).
MessageLocation(message) ==
    [lat |-> message.lat, lng |-> message.lng, heading |-> message.heading,
     speed |-> message.speed, timestamp |-> message.timestamp]

\* trackingInfo.location when the answer carried none, and trackingInfo = null.
NoLocation ==
    [lat |-> Undefined, lng |-> Undefined, heading |-> Undefined,
     speed |-> Undefined, timestamp |-> Undefined]
NoInfo == [delivery |-> [status |-> None], location |-> NoLocation]

\* What fetch(/api/track/<token>) can answer: the delivery as the server holds
\* it, with or without a location, or a failure.
ServerLocation == MessageLocation(CHOOSE m \in LocationMessages : m.timestamp = 1)

LoadOutcomes(tok) ==
    IF tok = GoodToken
    THEN { [kind |-> "ok", status |-> srv.status, location |-> l] :
              l \in {NoLocation, ServerLocation} }
         \cup { [kind |-> "http500", status |-> None, location |-> NoLocation],
                [kind |-> "network", status |-> None, location |-> NoLocation] }
    ELSE { [kind |-> "http404", status |-> None, location |-> NoLocation] }

\* loadTrackingInfo up to its await (line 62): the request leaves with the
\* token of the render that made the function; the answer is what the server
\* holds then.
loadTrackingInfo(t, tok, outcome) ==
    [t EXCEPT !.loads = @ \cup {[token |-> tok, outcome |-> outcome]}]

CanLoad(t, tok, outcome) ==
    \/ [token |-> tok, outcome |-> outcome] \in t.loads
    \/ Cardinality(t.loads) < MaxLoads

\* The delay of the reconnect timer (line 119), in milliseconds.
TrackReconnectDelay == 3000

\* A WebSocket of the screen: the token and the trackingInfo (null or not) of
\* the render whose setupWebSocket made it, its readyState, and the delay
\* waited before it was made (0 when the effect made it, the timer's delay
\* when a reconnect timer did).
NoSocket == [token |-> None, seenInfo |-> FALSE, readyState |-> "NONE", waited |-> 0]
NewSocket(tok, info, waited) ==
    [token |-> tok, seenInfo |-> info, readyState |-> "CONNECTING", waited |-> waited]

\* The timer onclose arms for socket sock (lines 115-119): the closure of the
\* render that made the socket and the delay given to setTimeout.  after is
\* the delay waited before sock when sock ends without having opened, the
\* previous delay of a run of failed connections (0 otherwise).
Closure(sock) ==
    [token |-> sock.token, seenInfo |-> sock.seenInfo,
     delay |-> TrackReconnectDelay,
     after |-> IF sock.readyState = "CONNECTING" THEN sock.waited ELSE 0]
AllClosures ==
    [token : Tokens, seenInfo : BOOLEAN, delay : {TrackReconnectDelay},
     after : {0, TrackReconnectDelay}]
Live(sock) == sock.readyState \in {"CONNECTING", "OPEN", "CLOSING"}

\* Sockets and timers the screen no longer references are kept as bags.
BagAdd(b, x) == b (+) SetToBag({x})
BagRemove(b, x) == b (-) SetToBag({x})

\* setupWebSocket (lines 80-130) of the render that saw (tok, info):
\* wsRef.current = ws; a socket wsRef pointed to and that is not closed yet
\* lives on unreferenced.
setupWebSocket(t, tok, info, waited) ==
    [t EXCEPT !.ws = NewSocket(tok, info, waited),
              !.orphans = IF Live(t.ws) THEN BagAdd(@, t.ws) ELSE @]

\* wsRef.current.close() when wsRef.current is set (cleanup, lines 53-57).
CloseCurrent(t) ==
    IF t.ws.readyState \in {"CONNECTING", "OPEN"}
    THEN [t EXCEPT !.ws.readyState = "CLOSING"]
    ELSE t

\* The effect body of lines 48-51 in the render that has token tok.
RunEffect(t, tok, outcome) ==
    IF tok # None
    THEN setupWebSocket(loadTrackingInfo(t, tok, outcome), tok, t.trackingInfo # NoInfo, 0)
    ELSE t

\* Sockets and timers pending besides wsRef.current.
Pending(t) == BagCardinality(t.orphans) + BagCardinality(t.timers)

TrackInit ==
    [mounted |-> FALSE, unmounted |-> FALSE, token |-> None,
     trackingInfo |-> NoInfo, loading |-> TRUE, error |-> None,
     ws |-> NoSocket, orphans |-> EmptyBag, timers |-> EmptyBag, loads |-> {}]

\* First render and its effect (lines 40-58).
TrackMount(tok, outcome) ==
    /\ ~track.mounted /\ ~track.unmounted
    /\ outcome \in LoadOutcomes(tok)
    /\ track' = RunEffect([track EXCEPT !.mounted = TRUE, !.token = tok], tok, outcome)
    /\ UNCHANGED <<navVars, driverVars, simple, admin, fleet, srv, legacy>>

\* The route parameter changes: cleanup of the old effect, then the effect again.
TrackTokenChange(tok, outcome) ==
    /\ track.mounted
    /\ tok # track.token
    /\ outcome \in LoadOutcomes(tok)
    /\ Pending(track) < MaxOrphans
    /\ CanLoad(track, tok, outcome)
    /\ track' = RunEffect([CloseCurrent(track) EXCEPT !.token = tok], tok, outcome)
    /\ UNCHANGED <<navVars, driverVars, simple, admin, fleet, srv, legacy>>

\* The screen goes away: the effect's cleanup runs, state setters become no-ops.
TrackUnmount ==
    /\ track.mounted
    /\ track' = [CloseCurrent(track) EXCEPT !.mounted = FALSE, !.unmounted = TRUE]
    /\ UNCHANGED <<navVars, driverVars, simple, admin, fleet, srv, legacy>>

\* ws.onopen (lines 85-87) on wsRef.current.
TrackSocketOpen ==
    /\ track.ws.readyState = "CONNECTING"
    /\ track' = [track EXCEPT !.ws.readyState = "OPEN"]
    /\ UNCHANGED <<navVars, driverVars, simple, admin, fleet, srv, legacy>>

\* wsRef.current ends (server, network, or a close() that completes) and
\* ws.onclose arms the 3 s timer (lines 112-120).
TrackSocketClose ==
    /\ Live(track.ws)
    /\ track' = [track EXCEPT !.ws.readyState = "CLOSED",
                              !.timers = BagAdd(@, Closure(track.ws))]
    /\ UNCHANGED <<navVars, driverVars, simple, admin, fleet, srv, legacy>>

\* The same for a socket wsRef no longer points to.
TrackOrphanClose(sock) ==
    /\ BagIn(sock, track.orphans)
    /\ track' = [track EXCEPT !.orphans = BagRemove(@, sock),
                              !.timers = BagAdd(@, Closure(sock))]
    /\ UNCHANGED <<navVars, driverVars, simple, admin, fleet, srv, legacy>>

\* The test of line 116 passing only for an open socket.
ShouldReconnect_WhenOpen(t) == t.ws.readyState = "OPEN"

\* The test of line 116 on wsRef.current.
ShouldReconnect(t) == t.ws.readyState = "CLOSED"

\* The reconnect timer cl fires (lines 115-119): setupWebSocket of the render
\* that made the closed socket runs when wsRef.current is closed.
onReconnectTimer(t, cl) ==
    LET t1 == [t EXCEPT !.timers = BagRemove(@, cl)]
    IN IF ShouldReconnect(t)
       THEN setupWebSocket(t1, cl.token, cl.seenInfo, cl.delay)
       ELSE t1

TrackReconnectTimer(cl) ==
    /\ BagIn(cl, track.timers)
    /\ track' = onReconnectTimer(track, cl)
    /\ UNCHANGED <<navVars, driverVars, simple, admin, fleet, srv, legacy>>

\* setTrackingInfo(prev => ...) of lines 93-106.
WithLocation(prev, message) ==
    IF prev = NoInfo THEN prev
    ELSE [prev EXCEPT !.location = MessageLocation(message)]

\* The guard of line 92: the message type and the trackingInfo of the render
\* that created the socket.
AcceptsLocation(sock, message) ==
    message.type = "location_update" /\ sock.seenInfo

\* ws.onmessage of socket sock with a location_update message (lines 89-106):
\* the screen state it leaves.
onLocationUpdate(t, sock, message) ==
    IF AcceptsLocation(sock, message) /\ t.mounted
    THEN [t EXCEPT !.trackingInfo = WithLocation(@, message)]
    ELSE t

TrackOnLocationUpdate(message) ==
    /\ track.ws.readyState = "OPEN"
    /\ message \in LocationMessages
    /\ track' = onLocationUpdate(track, track.ws, message)
    /\ UNCHANGED <<navVars, driverVars, simple, admin, fleet, srv, legacy>>

\* ws.onmessage with a delivery_updated message (lines 107-109).
TrackOnDeliveryUpdated(outcome) ==
    /\ track.ws.readyState = "OPEN"
    /\ outcome \in LoadOutcomes(track.ws.token)
    /\ CanLoad(track, track.ws.token, outcome)
    /\ track' = loadTrackingInfo(track, track.ws.token, outcome)
    /\ UNCHANGED <<navVars, driverVars, simple, admin, fleet, srv, legacy>>

\* ws.onmessage with a message of another type: neither branch is taken.
TrackOnOtherMessage ==
    /\ track.ws.readyState = "OPEN"
    /\ UNCHANGED vars

\* loadTrackingInfo after its await (lines 64-77).
ApplyLoad(t, outcome) ==
    [t EXCEPT
        !.trackingInfo =
            IF outcome.kind = "ok"
            THEN [delivery |-> [status |-> outcome.status],
                  location |-> outcome.location]
            ELSE @,
        !.error =
            CASE outcome.kind = "ok" -> None
              [] outcome.kind = "http404" -> "not_found"
              [] outcome.kind = "network" -> "network"
              [] OTHER -> "failed",
        !.loading = FALSE]

TrackLoadResponse(r) ==
    /\ r \in track.loads
    /\ track' = IF track.mounted
                THEN ApplyLoad([track EXCEPT !.loads = @ \ {r}], r.outcome)
                ELSE [track EXCEPT !.loads = @ \ {r}]
    /\ UNCHANGED <<navVars, driverVars, simple, admin, fleet, srv, legacy>>

\* The transitions the server commits on the tracked delivery.
ServerNext(s) ==
    CASE s \in {"created", "pending"} -> {"assigned", "cancelled"}
      [] s = "assigned" -> {"picked_up", "in_progress", "cancelled"}
      [] s = "picked_up" -> {"in_transit", "cancelled"}
      [] s \in {"in_transit", "in_progress"} -> {"delivered", "cancelled"}
      [] OTHER -> {}

ServerTransition(s) ==
    /\ s \in ServerNext(srv.status)
    /\ srv' = [srv EXCEPT !.status = s]
    /\ UNCHANGED <<navVars, driverVars, simple, admin, fleet, track, legacy>>

\* What the screen draws (lines 187-212 and 259).
ScreenShowsDelivery ==
    ~track.loading /\ track.error = None /\ track.trackingInfo # NoInfo

\* The panel drawn for every held location, whatever the status.
LocationPanelShown_AnyStatus ==
    ScreenShowsDelivery /\ track.trackingInfo.location # NoLocation

LocationPanelShown ==
    /\ ScreenShowsDelivery
    /\ track.trackingInfo.delivery.status = "in_progress"
    /\ track.trackingInfo.location # NoLocation

InitTrack ==
    /\ storage = EmptyStorage
    /\ route = TrackRoute
    /\ login = LoginInit
    /\ driver = DriverInit
    /\ cards = CardsInit
    /\ simple = SimpleInit
    /\ admin = AdminInit
    /\ fleet = FleetInit
    /\ track = TrackInit
    /\ srv = [status |-> "created"]
    /\ legacy = LegacyInit

\* The data path of the screen while its sockets stay up: loads, pushed
\* messages, route changes and the server's transitions.
NextTrack ==
    \/ \E tok \in Tokens \cup {None} : \E o \in LoadOutcomes(tok) : TrackMount(tok, o)
    \/ \E tok \in Tokens : \E o \in LoadOutcomes(tok) : TrackTokenChange(tok, o)
    \/ TrackSocketOpen
    \/ \E m \in LocationMessages : TrackOnLocationUpdate(m)
    \/ \E o \in LoadOutcomes(GoodToken) \cup LoadOutcomes(BadToken) : TrackOnDeliveryUpdated(o)
    \/ TrackOnOtherMessage
    \/ \E r \in track.loads : TrackLoadResponse(r)
    \/ \E s \in Statuses : ServerTransition(s)

SpecTrack == InitTrack /\ [][NextTrack]_vars

\* The connection of the screen: its sockets end, reconnect timers fire, the
\* token changes, the screen goes away.  The delivery's data stays as loaded.
NextTrackConn ==
    \/ \E tok \in Tokens \cup {None} : \E o \in LoadOutcomes(tok) : TrackMount(tok, o)
    \/ \E tok \in Tokens : \E o \in LoadOutcomes(tok) : TrackTokenChange(tok, o)
    \/ TrackUnmount
    \/ TrackSocketOpen
    \/ TrackSocketClose
    \/ \E sock \in BagToSet(track.orphans) : TrackOrphanClose(sock)
    \/ \E cl \in AllClosures : TrackReconnectTimer(cl)
    \/ \E r \in track.loads : TrackLoadResponse(r)

SpecTrackConn == InitTrack /\ [][NextTrackConn]_vars

\* The same with every reconnect timer firing once armed, as the JavaScript
\* event loop guarantees.
SpecTrackConnLive ==
    SpecTrackConn /\ \A cl \in AllClosures : WF_vars(TrackReconnectTimer(cl))

(***************************************************************************)
(*  DRIVER DASHBOARDS: delivery cards, map modal, navigation               *)
(*  app/driver/dashboard.tsx, app/driver/simple-dashboard.tsx              *)
(***************************************************************************)

\* A button of a delivery card: the handler it calls and the status the
\* call asks for (None when it asks for none).
Button(action, target) == [action |-> action, target |-> target]

\* A card that lets a picked-up delivery be marked delivered at once.
DriverCardButtons_Skip(status) ==
    (IF status = "assigned"
     THEN {Button("updateDeliveryStatus", "picked_up")} ELSE {})
    \cup (IF status = "picked_up"
          THEN {Button("startNavigation", None),
                Button("updateDeliveryStatus", "delivered")} ELSE {})
    \cup (IF status = "in_transit"
          THEN {Button("startNavigation", None),
                Button("completeDelivery", "delivered")} ELSE {})
    \cup {Button("viewMap", None)}

\* renderDeliveryCard of dashboard.tsx (lines 506-561): the buttons of a card
\* whose delivery has the given status.
DriverCardButtons(status) ==
    (IF status = "assigned"
     THEN {Button("updateDeliveryStatus", "picked_up")} ELSE {})
    \cup (IF status = "picked_up"
          THEN {Button("startNavigation", None),
                Button("updateDeliveryStatus", "in_transit")} ELSE {})
    \cup (IF status = "in_transit"
          THEN {Button("startNavigation", None),
                Button("completeDelivery", "delivered")} ELSE {})
    \cup {Button("viewMap", None)}

\* The cards of simple-dashboard.tsx (lines 192-219).
SimpleCardButtons(status) ==
    (IF status = "assigned"
     THEN {Button("updateDeliveryStatus", "picked_up")} ELSE {})
    \cup (IF status = "picked_up"
          THEN {Button("updateDeliveryStatus", "in_transit")} ELSE {})
    \cup (IF status = "in_transit"
          THEN {Button("updateDeliveryStatus", "delivered")} ELSE {})

\* The ids the list c shows a card for.
Listed(c) == {i \in DeliveryIds : c.deliveries[i] # None}

\* A request of a card's handler awaiting its answer: the delivery as the
\* card showed it and, for a status update, the status asked for.
Request(kind, id, status, target) ==
    [kind |-> kind, id |-> id, status |-> status, target |-> target]

CanRequest(c) == Cardinality(c.requests) < MaxRequests

\* The cards can be pressed: the dashboard is drawn, the full-screen map
\* modal (line 568) and the 'Complete Delivery' alert are not over it.
CardsEnabled ==
    DriverMainShown /\ ~cards.mapModalVisible /\ cards.confirm = NoDelivery

\* The server commits the transition a request asks for when the lifecycle
\* allows it from the status it holds, and answers with an error otherwise;
\* a request may also fail on the network.
Commits(reached, id, target) == reached /\ target \in ServerNext(fleet[id])

\* A delivery is cancelled while the driver works.  The steps from assigned
\* to delivered are the driver's own; assigning is the admin's.
FleetTransition(id, s) ==
    /\ s \in ServerNext(fleet[id]) \cap {"cancelled"}
    /\ fleet' = [fleet EXCEPT ![id] = s]
    /\ UNCHANGED <<navVars, driverVars, simple, admin, trackVars, legacy>>

\* onRefresh (lines 445-448).
CardsRefresh ==
    /\ CardsEnabled /\ cards.loads < MaxListLoads
    /\ cards' = [cards EXCEPT !.refreshing = TRUE, !.loads = @ + 1]
    /\ UNCHANGED <<navVars, driver, simple, admin, fleet, trackVars, legacy>>

\* updateDeliveryStatus up to its await (lines 317-324), from a card button.
CardUpdateStatus(id, target) ==
    /\ CardsEnabled /\ id \in Listed(cards) /\ CanRequest(cards)
    /\ Button("updateDeliveryStatus", target) \in DriverCardButtons(cards.deliveries[id])
    /\ cards' = [cards EXCEPT !.requests =
                    @ \cup {Request("status", id, cards.deliveries[id], target)}]
    /\ UNCHANGED <<navVars, driver, simple, admin, fleet, trackVars, legacy>>

\* updateDeliveryStatus after the await (lines 326-331): loadDeliveries on
\* success.
CardStatusResponse(r, reached) ==
    /\ r \in cards.requests /\ r.kind = "status"
    /\ LET ok == Commits(reached, r.id, r.target)
       IN /\ ok => cards.loads < MaxListLoads
          /\ fleet' = IF ok THEN [fleet EXCEPT ![r.id] = r.target] ELSE fleet
          /\ cards' = [cards EXCEPT !.requests = @ \ {r},
                                    !.loads = IF ok THEN @ + 1 ELSE @]
    /\ UNCHANGED <<navVars, driver, simple, admin, trackVars, legacy>>

\* startNavigation up to its first await (lines 334-367), from a card button.
startNavigation(c, userLocation, id) ==
    IF userLocation = NoUserLocation THEN c
    ELSE [c EXCEPT !.loading = TRUE,
                   !.requests = @ \cup {Request("route", id, c.deliveries[id], None)}]

CardStartNavigation(id) ==
    /\ CardsEnabled /\ id \in Listed(cards) /\ CanRequest(cards)
    /\ Button("startNavigation", None) \in DriverCardButtons(cards.deliveries[id])
    /\ cards' = startNavigation(cards, driver.userLocation, id)
    /\ UNCHANGED <<navVars, driver, simple, admin, fleet, trackVars, legacy>>

\* A route answer after which the navigation start is posted whatever the
\* answer says.
onRouteResponse_Always(c, r, success) ==
    [c EXCEPT !.requests = (@ \ {r}) \cup {Request("navigation", r.id, r.status, None)}]

\* A route answer whose failure leaves loading set.
onRouteResponse_KeepsLoading(c, r, success) ==
    IF success
    THEN [c EXCEPT !.requests =
             (@ \ {r}) \cup {Request("navigation", r.id, r.status, None)}]
    ELSE [c EXCEPT !.requests = @ \ {r}]

\* startNavigation after the route answer r (lines 369-390): with
\* routeResponse.data.success the navigation start is posted and awaited;
\* otherwise (success false, or the request threw) an alert is shown and
\* `finally` ends loading.
onRouteResponse(c, r, success) ==
    IF success
    THEN [c EXCEPT !.requests =
             (@ \ {r}) \cup {Request("navigation", r.id, r.status, None)}]
    ELSE [c EXCEPT !.requests = @ \ {r}, !.loading = FALSE]

CardRouteResponse(r, success) ==
    /\ r \in cards.requests /\ r.kind = "route"
    /\ cards' = onRouteResponse(cards, r, success)
    /\ UNCHANGED <<navVars, driver, simple, admin, fleet, trackVars, legacy>>

\* startNavigation after the navigation start answered (lines 377-390).
onNavigationResponse(c, r, ok) ==
    IF ok
    THEN [c EXCEPT !.requests = @ \ {r}, !.loading = FALSE,
                   !.navigationActive = TRUE,
                   !.selectedDelivery = [id |-> r.id, status |-> r.status],
                   !.mapModalVisible = TRUE]
    ELSE [c EXCEPT !.requests = @ \ {r}, !.loading = FALSE]

CardNavigationResponse(r, ok) ==
    /\ r \in cards.requests /\ r.kind = "navigation"
    /\ cards' = onNavigationResponse(cards, r, ok)
    /\ UNCHANGED <<navVars, driver, simple, admin, fleet, trackVars, legacy>>

\* 'View Map' of a card (lines 552-560) and 'Close' of the modal (line 575).
CardViewMap(id) ==
    /\ CardsEnabled /\ id \in Listed(cards)
    /\ cards' = [cards EXCEPT !.selectedDelivery = [id |-> id, status |-> cards.deliveries[id]],
                              !.mapModalVisible = TRUE]
    /\ UNCHANGED <<navVars, driver, simple, admin, fleet, trackVars, legacy>>

ModalClose ==
    /\ DriverMainShown /\ cards.mapModalVisible /\ cards.confirm = NoDelivery
    /\ cards' = [cards EXCEPT !.mapModalVisible = FALSE]
    /\ UNCHANGED <<navVars, driver, simple, admin, fleet, trackVars, legacy>>

\* completeDelivery (lines 393-422) shows its alert for delivery id, which
\* the list shows with cards.deliveries[id].
completeDelivery(c, id) == [c EXCEPT !.confirm = [id |-> id, status |-> c.deliveries[id]]]

\* 'Complete' of a card (lines 543-548).
CardComplete(id) ==
    /\ CardsEnabled /\ id \in Listed(cards)
    /\ Button("completeDelivery", "delivered") \in DriverCardButtons(cards.deliveries[id])
    /\ cards' = completeDelivery(cards, id)
    /\ UNCHANGED <<navVars, driver, simple, admin, fleet, trackVars, legacy>>

\* 'Complete' of the map modal (lines 582-589), drawn while navigationActive.
ModalComplete ==
    /\ DriverMainShown /\ cards.mapModalVisible /\ cards.navigationActive
    /\ cards.confirm = NoDelivery
    /\ cards.selectedDelivery # NoDelivery
    /\ cards' = completeDelivery(cards, cards.selectedDelivery.id)
    /\ UNCHANGED <<navVars, driver, simple, admin, fleet, trackVars, legacy>>

\* The alert's buttons: 'Cancel', and 'Complete' up to its await (lines 401-408).
ConfirmCancel ==
    /\ cards.confirm # NoDelivery
    /\ cards' = [cards EXCEPT !.confirm = NoDelivery]
    /\ UNCHANGED <<navVars, driver, simple, admin, fleet, trackVars, legacy>>

ConfirmComplete ==
    /\ cards.confirm # NoDelivery /\ CanRequest(cards)
    /\ cards' = [cards EXCEPT
                    !.confirm = NoDelivery,
                    !.requests = @ \cup {Request("complete", cards.confirm.id,
                                                 cards.confirm.status, "delivered")}]
    /\ UNCHANGED <<navVars, driver, simple, admin, fleet, trackVars, legacy>>

\* The completion answers (lines 410-417).
CardCompleteResponse(r, reached) ==
    /\ r \in cards.requests /\ r.kind = "complete"
    /\ LET ok == Commits(reached, r.id, r.target)
       IN /\ ok => cards.loads < MaxListLoads
          /\ fleet' = IF ok THEN [fleet EXCEPT ![r.id] = r.target] ELSE fleet
          /\ cards' = IF ok
                      THEN [cards EXCEPT !.requests = @ \ {r}, !.loads = @ + 1,
                                         !.navigationActive = FALSE,
                                         !.mapModalVisible = FALSE]
                      ELSE [cards EXCEPT !.requests = @ \ {r}]
    /\ UNCHANGED <<navVars, driver, simple, admin, trackVars, legacy>>

\* checkAuth of simple-dashboard.tsx (lines 40-63), run by the mount effect:
\* on success loadDeliveries is awaited.
SimpleCheckAuth ==
    /\ route = SimpleRoute /\ simple.mounted /\ ~simple.checked
    /\ LET u == AuthorizedUser(storage, "driver")
       IN IF u = NoUser
          THEN Show(LoginRoute)
          ELSE /\ simple' = [simple EXCEPT !.checked = TRUE, !.user = u,
                                           !.loads = @ + 1]
               /\ UNCHANGED <<route, login, driverVars, admin>>
    /\ UNCHANGED <<storage, fleet, trackVars, legacy>>

\* loadDeliveries answers (lines 72-79).
SimpleLoadResponse(ok) ==
    /\ simple.loads > 0
    /\ simple' = [ApplyDeliveries(simple, simple.mounted, ok, fleet)
                     EXCEPT !.loads = @ - 1]
    /\ UNCHANGED <<navVars, driverVars, admin, fleet, trackVars, legacy>>

\* The dashboard is drawn once loading is over (lines 116-123).
SimpleMainShown == route = SimpleRoute /\ simple.mounted /\ ~simple.loading

\* Pull to refresh: onRefresh is loadDeliveries (line 155).
SimpleRefresh ==
    /\ SimpleMainShown /\ simple.loads < MaxListLoads
    /\ simple' = [simple EXCEPT !.loads = @ + 1]
    /\ UNCHANGED <<navVars, driverVars, admin, fleet, trackVars, legacy>>

\* updateDeliveryStatus (lines 82-97) from a card button, and its answer.
SimpleUpdateStatus(id, target) ==
    /\ SimpleMainShown /\ id \in Listed(simple) /\ CanRequest(simple)
    /\ Button("updateDeliveryStatus", target) \in SimpleCardButtons(simple.deliveries[id])
    /\ simple' = [simple EXCEPT !.requests =
                     @ \cup {Request("status", id, simple.deliveries[id], target)}]
    /\ UNCHANGED <<navVars, driverVars, admin, fleet, trackVars, legacy>>

SimpleStatusResponse(r, reached) ==
    /\ r \in simple.requests
    /\ LET ok == Commits(reached, r.id, r.target)
       IN /\ ok => simple.loads < MaxListLoads
          /\ fleet' = IF ok THEN [fleet EXCEPT ![r.id] = r.target] ELSE fleet
          /\ simple' = [simple EXCEPT !.requests = @ \ {r},
                                      !.loads = IF ok THEN @ + 1 ELSE @]
    /\ UNCHANGED <<navVars, driverVars, admin, trackVars, legacy>>

\* handleLogout's 'Logout' button (lines 99-114).
SimpleLogout ==
    /\ SimpleMainShown
    /\ storage' = multiRemove(storage, {"authToken", "userData"})
    /\ Show(LoginRoute)
    /\ UNCHANGED <<fleet, trackVars, legacy>>

\* renderDeliveryActions of unnamed/part_001 (lines 153-196).
LegacyCardButtons(status) ==
    CASE status = "assigned" -> {Button("updateDeliveryStatus", "in_progress")}
      [] status = "in_progress" ->
            {Button("startNavigation", None),
             Button("updateDeliveryStatus", "delivered")}
      [] OTHER -> {}

\* loadDeliveries of part_001 after its await (lines 75-83).
LegacyLoadResponse(ok) ==
    /\ legacy.loads > 0
    /\ legacy' = [legacy EXCEPT !.deliveries = IF ok THEN fleet ELSE @,
                                !.loading = FALSE, !.loads = @ - 1]
    /\ UNCHANGED <<navVars, driverVars, simple, admin, fleet, trackVars>>

\* onRefresh (lines 245-249) calls loadDeliveries (lines 69-73).
LegacyRefresh ==
    /\ legacy.mounted /\ legacy.loads < MaxListLoads
    /\ legacy' = [legacy EXCEPT !.loading = TRUE, !.loads = @ + 1]
    /\ UNCHANGED <<navVars, driverVars, simple, admin, fleet, trackVars>>

\* updateDeliveryStatus of part_001 (lines 91-98) from a card button.
LegacyUpdateStatus(id, target) ==
    /\ legacy.mounted /\ id \in Listed(legacy) /\ CanRequest(legacy)
    /\ Button("updateDeliveryStatus", target) \in LegacyCardButtons(legacy.deliveries[id])
    /\ legacy' = [legacy EXCEPT !.requests =
                     @ \cup {Request("status", id, legacy.deliveries[id], target)}]
    /\ UNCHANGED <<navVars, driverVars, simple, admin, fleet, trackVars>>

\* Its answer (lines 100-108): loadDeliveries when response.ok.
LegacyStatusResponse(r, reached) ==
    /\ r \in legacy.requests
    /\ LET ok == Commits(reached, r.id, r.target)
       IN /\ ok => legacy.loads < MaxListLoads
          /\ fleet' = IF ok THEN [fleet EXCEPT ![r.id] = r.target] ELSE fleet
          /\ legacy' = IF ok
                       THEN [legacy EXCEPT !.requests = @ \ {r}, !.loading = TRUE,
                                           !.loads = @ + 1]
                       ELSE [legacy EXCEPT !.requests = @ \ {r}]
    /\ UNCHANGED <<navVars, driverVars, simple, admin, trackVars>>

(***************************************************************************)
(*  ADMIN DASHBOARD  app/admin/dashboard.tsx: cards and modals             *)
(***************************************************************************)

\* The cards can be pressed: the dashboard is drawn and no modal is over it.
AdminCardsEnabled ==
    /\ AdminMainShown /\ ~admin.assignModalVisible /\ ~admin.trackingModalVisible
    /\ ~admin.createModalVisible

\* The assign modal's buttons can be pressed: it is shown, and the tracking
\* modal (drawn after it, line 638) is not over it.
AssignModalEnabled ==
    AdminMainShown /\ admin.assignModalVisible /\ ~admin.trackingModalVisible

\* onRefresh (lines 277-280).
AdminRefresh ==
    /\ AdminCardsEnabled /\ admin.loads < MaxListLoads /\ admin.driverLoads < MaxListLoads
    /\ admin' = [admin EXCEPT !.loads = @ + 1, !.driverLoads = @ + 1]
    /\ UNCHANGED <<navVars, driverVars, simple, fleet, trackVars, legacy>>

\* 'Assign Driver' of a pending card (lines 352-362).  pressed keeps the
\* delivery of that card.
AdminPressAssign(id) ==
    /\ AdminCardsEnabled /\ admin.deliveries[id] = "pending"
    /\ admin' = [admin EXCEPT
                    !.selectedDelivery = [id |-> id, status |-> admin.deliveries[id]],
                    !.assignModalVisible = TRUE,
                    !.pressed = [id |-> id, status |-> admin.deliveries[id]]]
    /\ UNCHANGED <<navVars, driverVars, simple, fleet, trackVars, legacy>>

\* A driver of the assign modal's list is chosen (line 505).
AdminSelectDriver ==
    /\ AssignModalEnabled /\ admin.driversLoaded
    /\ admin' = [admin EXCEPT !.selectedDriverId = DriverAccount.id]
    /\ UNCHANGED <<navVars, driverVars, simple, fleet, trackVars, legacy>>

\* 'Cancel' of the assign modal (line 473).
AdminAssignCancel ==
    /\ AssignModalEnabled
    /\ admin' = [admin EXCEPT !.assignModalVisible = FALSE]
    /\ UNCHANGED <<navVars, driverVars, simple, fleet, trackVars, legacy>>

\* assignDelivery up to its await (lines 182-196): the request carries
\* selectedDelivery.id.
assignDelivery(a) ==
    IF a.selectedDelivery = NoDelivery \/ a.selectedDriverId = None THEN a
    ELSE [a EXCEPT !.loading = TRUE, !.assignRequest = a.selectedDelivery]

\* 'Assign' of the assign modal, disabled while loading or without a driver
\* (line 477).
AdminAssign ==
    /\ AssignModalEnabled /\ ~admin.loading /\ admin.selectedDriverId # None
    /\ admin.assignRequest = NoDelivery
    /\ admin' = assignDelivery(admin)
    /\ UNCHANGED <<navVars, driverVars, simple, fleet, trackVars, legacy>>

\* assignDelivery after its await (lines 198-209): on success the modal is
\* closed and loadDeliveries awaited, whose answer ends loading.
AdminAssignResponse(reached) ==
    /\ admin.assignRequest # NoDelivery
    /\ LET ok == Commits(reached, admin.assignRequest.id, "assigned")
       IN /\ fleet' = IF ok THEN [fleet EXCEPT ![admin.assignRequest.id] = "assigned"]
                      ELSE fleet
          /\ admin' =
               IF ok
               THEN [admin EXCEPT !.assignRequest = NoDelivery,
                                  !.assignModalVisible = FALSE,
                                  !.selectedDelivery = NoDelivery,
                                  !.selectedDriverId = None,
                                  !.loads = @ + 1]
               ELSE [admin EXCEPT !.assignRequest = NoDelivery, !.loading = FALSE]
    /\ UNCHANGED <<navVars, driverVars, simple, trackVars, legacy>>

\* createTrackingLink up to its await (lines 212-221), from the button of a
\* card that is not pending (lines 364-371).
AdminCreateLink(id) ==
    /\ AdminCardsEnabled /\ admin.deliveries[id] \notin {None, "pending"}
    /\ admin.linkRequest = NoDelivery
    /\ admin' = [admin EXCEPT !.loading = TRUE,
                              !.linkRequest = [id |-> id, status |-> admin.deliveries[id]]]
    /\ UNCHANGED <<navVars, driverVars, simple, fleet, trackVars, legacy>>

\* createTrackingLink after its await (lines 223-235).
AdminLinkResponse(success) ==
    /\ admin.linkRequest # NoDelivery
    /\ admin' = IF success
                THEN [admin EXCEPT !.linkRequest = NoDelivery, !.loading = FALSE,
                                   !.trackingUrl = admin.linkRequest.id,
                                   !.selectedDelivery = admin.linkRequest,
                                   !.trackingModalVisible = TRUE]
                ELSE [admin EXCEPT !.linkRequest = NoDelivery, !.loading = FALSE]
    /\ UNCHANGED <<navVars, driverVars, simple, fleet, trackVars, legacy>>

\* 'Close' of the tracking modal (line 523).
AdminTrackingClose ==
    /\ AdminMainShown /\ admin.trackingModalVisible
    /\ admin' = [admin EXCEPT !.trackingModalVisible = FALSE]
    /\ UNCHANGED <<navVars, driverVars, simple, fleet, trackVars, legacy>>

\* The '+' button of the header (line 601) opens the new-delivery modal.
AdminOpenCreate ==
    /\ AdminCardsEnabled /\ ~admin.createModalVisible
    /\ admin' = [admin EXCEPT !.createModalVisible = TRUE]
    /\ UNCHANGED <<navVars, driverVars, simple, fleet, trackVars, legacy>>

\* onChangeText of a field of the form (lines 399-443).
AdminEditForm(field, filled) ==
    /\ AdminMainShown /\ admin.createModalVisible
    /\ admin' = [admin EXCEPT !.formData[field] = filled]
    /\ UNCHANGED <<navVars, driverVars, simple, fleet, trackVars, legacy>>

\* 'Cancel' of the new-delivery modal (line 384).
AdminCreateCancel ==
    /\ AdminMainShown /\ admin.createModalVisible
    /\ admin' = [admin EXCEPT !.createModalVisible = FALSE]
    /\ UNCHANGED <<navVars, driverVars, simple, fleet, trackVars, legacy>>

\* createDelivery up to its await (lines 144-158): the request carries
\* formData; with a required field empty an alert is shown instead.
createDelivery(a) ==
    IF \/ ~a.formData["customer_name"] \/ ~a.formData["customer_email"]
       \/ ~a.formData["pickup_address"] \/ ~a.formData["delivery_address"]
    THEN a
    ELSE [a EXCEPT !.loading = TRUE, !.createRequest = a.formData]

\* 'Create' of the new-delivery modal, disabled while loading (line 388).
AdminCreate ==
    /\ AdminMainShown /\ admin.createModalVisible /\ ~admin.loading
    /\ admin.createRequest = EmptyForm
    /\ admin' = createDelivery(admin)
    /\ UNCHANGED <<navVars, driverVars, simple, fleet, trackVars, legacy>>

\* createDelivery after its await (lines 160-179).  The answer carries a
\* delivery_id, carries none, or the request fails; with an id the modal is
\* closed, the form emptied and loadDeliveries awaited, whose answer ends
\* loading.  The new delivery is not one of DeliveryIds.
AdminCreateResponse(outcome) ==
    /\ admin.createRequest # EmptyForm
    /\ admin' =
          IF outcome = "created"
          THEN [admin EXCEPT !.createRequest = EmptyForm,
                             !.createModalVisible = FALSE,
                             !.formData = EmptyForm,
                             !.loads = @ + 1]
          ELSE [admin EXCEPT !.createRequest = EmptyForm, !.loading = FALSE]
    /\ UNCHANGED <<navVars, driverVars, simple, fleet, trackVars, legacy>>

(***************************************************************************)
(* The session: login, the dashboards' authorisation, the driver's         *)
(* startup, location watch and socket, logout.  The app starts on '/'      *)
(* with the storage an earlier run left.                                   *)
(***************************************************************************)
Init ==
    /\ storage \in InitialStorages
    /\ route = LoginRoute
    /\ login = LoginInit
    /\ driver = DriverInit
    /\ cards = CardsInit
    /\ simple = SimpleInit
    /\ admin = AdminInit
    /\ fleet = FleetInit
    /\ track = TrackInit
    /\ srv = [status |-> "created"]
    /\ legacy = LegacyInit

SocketIds == 1..Len(driver.sockets)

Next ==
    \/ LoginCheckExisting
    \/ \E f \in LoginFields : \E b \in BOOLEAN : LoginEdit(f, b)
    \/ LoginToggleMode
    \/ \E r \in {"driver", "admin"} : LoginSetRole(r)
    \/ LoginSubmit
    \/ \E o \in AuthOutcomes(login) : LoginResponse(o)
    \/ DriverCheckAuth
    \/ DriverTimer100
    \/ \E ok \in BOOLEAN : DriverStartupLoaded(ok)
    \/ \E ok \in BOOLEAN : DriverLoadResponse(ok)
    \/ DriverTimer500
    \/ \E granted \in BOOLEAN : DriverPermission(granted)
    \/ \E o \in PositionOutcomes : DriverPosition(o)
    \/ DriverTrackTimer
    \/ \E ok \in BOOLEAN : DriverWatchStarted(ok)
    \/ \E c \in Samples : DriverSample(c)
    \/ DriverTimer1000
    \/ \E i \in SocketIds : DriverSocketOpen(i)
    \/ \E i \in SocketIds : DriverConnectionTimeout(i)
    \/ \E i \in SocketIds : \E failed \in BOOLEAN : DriverSocketClose(i, failed)
    \/ DriverReconnectTimer
    \/ \E i \in SocketIds : \E e \in DriverMessages : DriverOnMessage(i, e)
    \/ DriverLogout
    \/ AdminCheckAuth
    \/ \E ok \in BOOLEAN : AdminLoadResponse(ok)
    \/ \E ok \in BOOLEAN : AdminDriversResponse(ok)
    \/ AdminLogout

Spec == Init /\ [][Next]_vars

\* The login screen alone: the form, its requests, and the dashboards'
\* authorisation that may send the user back to it.
NextLogin ==
    \/ LoginCheckExisting
    \/ \E f \in LoginFields : \E b \in BOOLEAN : LoginEdit(f, b)
    \/ LoginToggleMode
    \/ \E r \in {"driver", "admin"} : LoginSetRole(r)
    \/ LoginSubmit
    \/ \E o \in AuthOutcomes(login) : LoginResponse(o)
    \/ DriverCheckAuth
    \/ AdminCheckAuth

SpecLogin == Init /\ [][NextLogin]_vars

(***************************************************************************)
(* One mount of the driver dashboard by a driver whose session is stored:  *)
(* the state the session reaches when u1 logs in over a stored session.    *)
(***************************************************************************)
InitDriver ==
    /\ storage = StoreLogin(StoredSession(DriverAccount),
                            [kind |-> "ok", user |-> DriverAccount])
    /\ route = DriverRoute
    /\ login = LoginInit
    /\ driver = [DriverInit EXCEPT !.mounted = TRUE]
    /\ cards = CardsInit
    /\ simple = SimpleInit
    /\ admin = AdminInit
    /\ fleet = FleetInit
    /\ track = TrackInit
    /\ srv = [status |-> "created"]
    /\ legacy = LegacyInit

NextDriver ==
    \/ DriverCheckAuth
    \/ DriverTimer100
    \/ \E ok \in BOOLEAN : DriverStartupLoaded(ok)
    \/ \E ok \in BOOLEAN : DriverLoadResponse(ok)
    \/ DriverTimer500
    \/ \E granted \in BOOLEAN : DriverPermission(granted)
    \/ \E o \in PositionOutcomes : DriverPosition(o)
    \/ DriverTrackTimer
    \/ \E ok \in BOOLEAN : DriverWatchStarted(ok)
    \/ \E c \in Samples : DriverSample(c)
    \/ DriverTimer1000
    \/ \E i \in SocketIds : DriverSocketOpen(i)
    \/ \E i \in SocketIds : DriverConnectionTimeout(i)
    \/ \E i \in SocketIds : \E failed \in BOOLEAN : DriverSocketClose(i, failed)
    \/ DriverReconnectTimer
    \/ \E i \in SocketIds : \E e \in DriverMessages : DriverOnMessage(i, e)
    \/ DriverLogout

SpecDriver == InitDriver /\ [][NextDriver]_vars

\* The same with every timer firing once armed, as the JavaScript event loop
\* guarantees.
SpecDriverLive ==
    /\ SpecDriver
    /\ WF_vars(DriverCheckAuth)
    /\ WF_vars(DriverTimer100)
    /\ WF_vars(DriverTimer500)
    /\ WF_vars(DriverTimer1000)
    /\ WF_vars(DriverTrackTimer)
    /\ WF_vars(\E i \in SocketIds : DriverConnectionTimeout(i))
    /\ WF_vars(DriverReconnectTimer)

\* The router replaces the dashboard by another screen without a logout (a
\* tracking link is opened): the cleanup of the mount effect runs
\* (lines 78-83).
DriverLeave ==
    /\ route = DriverRoute /\ driver.mounted
    /\ ShowFrom(driver, TrackRoute)
    /\ UNCHANGED <<storage, fleet, trackVars, legacy>>

\* One mount of the driver dashboard that may end by a logout or by the
\* router.
NextDriverLeave ==
    \/ DriverCheckAuth
    \/ DriverTimer100
    \/ \E ok \in BOOLEAN : DriverStartupLoaded(ok)
    \/ \E ok \in BOOLEAN : DriverLoadResponse(ok)
    \/ DriverTimer500
    \/ \E granted \in BOOLEAN : DriverPermission(granted)
    \/ \E o \in PositionOutcomes : DriverPosition(o)
    \/ DriverTrackTimer
    \/ \E ok \in BOOLEAN : DriverWatchStarted(ok)
    \/ \E c \in Samples : DriverSample(c)
    \/ DriverTimer1000
    \/ \E i \in SocketIds : DriverSocketOpen(i)
    \/ \E i \in SocketIds : DriverConnectionTimeout(i)
    \/ \E i \in SocketIds : \E failed \in BOOLEAN : DriverSocketClose(i, failed)
    \/ DriverReconnectTimer
    \/ \E i \in SocketIds : \E e \in DriverMessages : DriverOnMessage(i, e)
    \/ DriverLogout
    \/ DriverLeave

SpecDriverLeave == InitDriver /\ [][NextDriverLeave]_vars

(***************************************************************************)
(* The driver's work on the cards.  The driver dashboard is taken after    *)
(* its startup (first load answered, location permission denied or the     *)
(* position failed, socket closed); the simple dashboard is opened by its  *)
(* route with the session stored.                                          *)
(***************************************************************************)
SettledDriver(userLocation) ==
    [DriverInit EXCEPT
        !.mounted = TRUE, !.checked = TRUE, !.user = DriverAccount,
        !.startup = "done", !.userLocation = userLocation,
        !.sockets = <<[driverId |-> DriverAccount.id, readyState |-> "CLOSED",
                       timeout |-> FALSE, clientClosed |-> FALSE]>>]

InitDriverUI ==
    /\ storage = StoreLogin(StoredSession(DriverAccount),
                            [kind |-> "ok", user |-> DriverAccount])
    /\ login = LoginInit
    /\ admin = AdminInit
    /\ fleet = FleetInit
    /\ track = TrackInit
    /\ srv = [status |-> "created"]
    /\ \/ /\ route = DriverRoute
          /\ driver \in {SettledDriver(NoUserLocation), SettledDriver(DefaultLocation)}
          /\ cards = [CardsInit EXCEPT !.deliveries = FleetInit, !.loading = FALSE]
          /\ simple = SimpleInit
          /\ legacy = LegacyInit
       \/ /\ route = SimpleRoute
          /\ driver = DriverInit
          /\ cards = CardsInit
          /\ simple = [SimpleInit EXCEPT !.mounted = TRUE]
          /\ legacy = LegacyInit
       \/ /\ route = LegacyRoute
          /\ driver = DriverInit
          /\ cards = CardsInit
          /\ simple = SimpleInit
          /\ legacy = [LegacyInit EXCEPT !.mounted = TRUE, !.loading = TRUE,
                                         !.loads = 1]

NextDriverUI ==
    \/ \E id \in DeliveryIds : \E s \in Statuses : FleetTransition(id, s)
    \/ CardsRefresh
    \/ \E ok \in BOOLEAN : DriverLoadResponse(ok)
    \/ \E id \in DeliveryIds : \E s \in Statuses : CardUpdateStatus(id, s)
    \/ \E r \in cards.requests : \E b \in BOOLEAN : CardStatusResponse(r, b)
    \/ \E id \in DeliveryIds : CardStartNavigation(id)
    \/ \E r \in cards.requests : \E b \in BOOLEAN : CardRouteResponse(r, b)
    \/ \E r \in cards.requests : \E b \in BOOLEAN : CardNavigationResponse(r, b)
    \/ \E id \in DeliveryIds : CardViewMap(id)
    \/ ModalClose
    \/ \E id \in DeliveryIds : CardComplete(id)
    \/ ModalComplete
    \/ ConfirmCancel
    \/ ConfirmComplete
    \/ \E r \in cards.requests : \E b \in BOOLEAN : CardCompleteResponse(r, b)
    \/ SimpleCheckAuth
    \/ \E ok \in BOOLEAN : SimpleLoadResponse(ok)
    \/ SimpleRefresh
    \/ \E id \in DeliveryIds : \E s \in Statuses : SimpleUpdateStatus(id, s)
    \/ \E r \in simple.requests : \E b \in BOOLEAN : SimpleStatusResponse(r, b)
    \/ SimpleLogout
    \/ \E ok \in BOOLEAN : LegacyLoadResponse(ok)
    \/ LegacyRefresh
    \/ \E id \in DeliveryIds : \E s \in Statuses : LegacyUpdateStatus(id, s)
    \/ \E r \in legacy.requests : \E b \in BOOLEAN : LegacyStatusResponse(r, b)

SpecDriverUI == InitDriverUI /\ [][NextDriverUI]_vars

(***************************************************************************)
(* The admin's work on the dashboard, opened with an admin's session       *)
(* stored: the state the session reaches when u2 logs in over it.          *)
(***************************************************************************)
InitAdmin ==
    /\ storage = StoreLogin(StoredSession(AdminAccount),
                            [kind |-> "ok", user |-> AdminAccount])
    /\ route = AdminRoute
    /\ login = LoginInit
    /\ driver = DriverInit
    /\ cards = CardsInit
    /\ simple = SimpleInit
    /\ admin = [AdminInit EXCEPT !.mounted = TRUE]
    /\ fleet = FleetInit
    /\ track = TrackInit
    /\ srv = [status |-> "created"]
    /\ legacy = LegacyInit

NextAdmin ==
    \/ AdminCheckAuth
    \/ \E ok \in BOOLEAN : AdminLoadResponse(ok)
    \/ \E ok \in BOOLEAN : AdminDriversResponse(ok)
    \/ AdminRefresh
    \/ \E id \in DeliveryIds : AdminPressAssign(id)
    \/ AdminSelectDriver
    \/ AdminAssignCancel
    \/ AdminAssign
    \/ \E b \in BOOLEAN : AdminAssignResponse(b)
    \/ \E id \in DeliveryIds : AdminCreateLink(id)
    \/ \E b \in BOOLEAN : AdminLinkResponse(b)
    \/ AdminTrackingClose
    \/ AdminLogout

SpecAdmin == InitAdmin /\ [][NextAdmin]_vars

\* The admin's work on the new-delivery form.
NextAdminCreate ==
    \/ AdminCheckAuth
    \/ \E ok \in BOOLEAN : AdminLoadResponse(ok)
    \/ \E ok \in BOOLEAN : AdminDriversResponse(ok)
    \/ AdminOpenCreate
    \/ \E f \in FormFields : \E b \in BOOLEAN : AdminEditForm(f, b)
    \/ AdminCreateCancel
    \/ AdminCreate
    \/ \E o \in {"created", "no_id", "failed"} : AdminCreateResponse(o)
    \/ AdminLogout

SpecAdminCreate == InitAdmin /\ [][NextAdminCreate]_vars

(***************************************************************************)
(* A dashboard opened by its route, with whatever an earlier run left in   *)
(* the storage: nothing, a token alone, a user record alone, the session   *)
(* of a driver or of an admin, or what a login stores.                     *)
(***************************************************************************)
AuthStorages ==
    InitialStorages
    \cup {setItem(EmptyStorage, "authToken", TokenItem)}
    \cup {setItem(EmptyStorage, "userData", Stringify(u)) : u \in Accounts}
    \cup {StoreLogin(EmptyStorage, [kind |-> "ok", user |-> u]) : u \in Accounts}

InitAuth ==
    /\ storage \in AuthStorages
    /\ route \in {DriverRoute, SimpleRoute, AdminRoute}
    /\ login = LoginInit
    /\ driver = [DriverInit EXCEPT !.mounted = (route = DriverRoute)]
    /\ cards = CardsInit
    /\ simple = [SimpleInit EXCEPT !.mounted = (route = SimpleRoute)]
    /\ admin = [AdminInit EXCEPT !.mounted = (route = AdminRoute)]
    /\ fleet = FleetInit
    /\ track = TrackInit
    /\ srv = [status |-> "created"]
    /\ legacy = LegacyInit

NextAuth ==
    \/ DriverCheckAuth
    \/ DriverTimer100
    \/ \E ok \in BOOLEAN : DriverStartupLoaded(ok)
    \/ \E ok \in BOOLEAN : DriverLoadResponse(ok)
    \/ DriverTimer500
    \/ \E granted \in BOOLEAN : DriverPermission(granted)
    \/ \E o \in PositionOutcomes : DriverPosition(o)
    \/ DriverTrackTimer
    \/ \E ok \in BOOLEAN : DriverWatchStarted(ok)
    \/ DriverTimer1000
    \/ \E i \in SocketIds : DriverSocketOpen(i)
    \/ \E i \in SocketIds : \E failed \in BOOLEAN : DriverSocketClose(i, failed)
    \/ DriverReconnectTimer
    \/ DriverLogout
    \/ SimpleCheckAuth
    \/ \E ok \in BOOLEAN : SimpleLoadResponse(ok)
    \/ SimpleRefresh
    \/ SimpleLogout
    \/ AdminCheckAuth
    \/ \E ok \in BOOLEAN : AdminLoadResponse(ok)
    \/ \E ok \in BOOLEAN : AdminDriversResponse(ok)
    \/ AdminLogout

SpecAuth == InitAuth /\ [][NextAuth]_vars

(***************************************************************************)
(* Tracking screen: claims.                                                *)
(***************************************************************************)

\* C3: a location_update message that arrives on the open socket while
\* trackingInfo is non-null makes the stored location exactly the message's
\* lat, lng, heading, speed and timestamp and leaves the stored delivery
\* unchanged.
C3_LocationUpdateStored ==
    \A m \in LocationMessages :
        (track.mounted /\ track.ws.readyState = "OPEN" /\ track.trackingInfo # NoInfo)
        => onLocationUpdate(track, track.ws, m).trackingInfo =
              [delivery |-> track.trackingInfo.delivery,
               location |-> [lat |-> m.lat, lng |-> m.lng, heading |-> m.heading,
                             speed |-> m.speed, timestamp |-> m.timestamp]]

\* C5: whenever the screen shows a delivery whose status is in_transit and
\* holds a location for it, the driver-location panel is displayed.
C5_InTransitShowsPanel ==
    (/\ ScreenShowsDelivery
     /\ track.trackingInfo.delivery.status = "in_transit"
     /\ track.trackingInfo.location # NoLocation)
    => LocationPanelShown

\* C6: the driver-location panel is never displayed while the held delivery's
\* status is created, delivered or cancelled, whatever location is held.
C6_NoPanelOutsideTransit ==
    (/\ track.trackingInfo # NoInfo
     /\ track.trackingInfo.delivery.status \in {"created", "delivered", "cancelled"})
    => ~LocationPanelShown

\* C6 witness: a delivered delivery is on screen together with a location.
C6_Witness ==
    /\ ScreenShowsDelivery
    /\ track.trackingInfo.delivery.status = "delivered"
    /\ track.trackingInfo.location # NoLocation
    /\ ~LocationPanelShown

\* C10: the status on screen never goes back to an earlier status of the
\* lifecycle, also with several loadTrackingInfo requests in flight.
C10_StatusNeverReverts ==
    [][(ScreenShowsDelivery /\ ScreenShowsDelivery')
       => Rank(track'.trackingInfo.delivery.status)
            >= Rank(track.trackingInfo.delivery.status)]_vars

\* C11: after consecutive failed connections the delay before a reconnect
\* attempt is strictly larger than the delay before the previous attempt:
\* a timer armed when a retried socket ends without having opened waits
\* longer than was waited before that socket.  (The code has no cap.)
C11_DelayGrows ==
    \A cl \in BagToSet(track.timers) : cl.after > 0 => cl.delay > cl.after

\* C17: while the screen is mounted and wsRef.current is a closed socket, the
\* timer its close armed is pending and makes, when it fires, a new socket
\* for the closed socket's token; and the closed socket is replaced in the end.
C17_CloseLeadsToNewSocket ==
    /\ [](track.mounted /\ track.ws.readyState = "CLOSED"
            => \E cl \in BagToSet(track.timers) :
                  /\ cl.token = track.ws.token
                  /\ onReconnectTimer(track, cl).ws
                        = NewSocket(track.ws.token, cl.seenInfo, TrackReconnectDelay))
    /\ (track.mounted /\ track.ws.readyState = "CLOSED")
          ~> (~track.mounted \/ track.ws.readyState = "CONNECTING")

\* C17 witness: the mounted screen holds a socket a reconnect timer made.
C17_Witness ==
    /\ track.mounted
    /\ track.ws.readyState = "CONNECTING"
    /\ track.ws.waited = TrackReconnectDelay

\* C24: once the tracking screen has unmounted, no step makes a new
\* tracking socket: wsRef.current never becomes a socket that is CONNECTING.
C24_NoSocketAfterUnmount ==
    [][track.unmounted =>
          ~(track.ws.readyState # "CONNECTING" /\ track'.ws.readyState = "CONNECTING")]_vars

\* The screen's sockets that are CONNECTING or OPEN, as a bag.
ConnectedSockets(t) ==
    LET up(sock) == sock.readyState \in {"CONNECTING", "OPEN"}
        held == IF up(t.ws) THEN SetToBag({t.ws}) ELSE EmptyBag
        others == [sock \in {x \in BagToSet(t.orphans) : up(x)}
                      |-> CopiesIn(sock, t.orphans)]
    IN held (+) others

\* C26: while the screen is mounted, every tracking socket that is
\* CONNECTING or OPEN was made with the screen's current token, and there
\* is at most one such socket.
C26_SocketsOfCurrentToken ==
    track.mounted =>
       /\ \A sock \in BagToSet(ConnectedSockets(track)) : sock.token = track.token
       /\ BagCardinality(ConnectedSockets(track)) <= 1

(***************************************************************************)
(* Session: claims.                                                        *)
(***************************************************************************)

\* C1: once a login has stored the token and the user record, the app leaves
\* a dashboard for '/' only by a logout (which removes the token).
C1_DashboardKeptAfterLogin ==
    [][(/\ route \in {DriverRoute, AdminRoute}
        /\ getItem(storage, "authToken") # NoItem
        /\ getItem(storage, "user") # NoItem
        /\ route' = LoginRoute)
       => getItem(storage', "authToken") = NoItem]_vars

\* The driver's socket n has been closed without the client asking for it.
UnexpectedlyClosed(n) ==
    /\ driver.mounted /\ driver.user # NoUser
    /\ Len(driver.sockets) = n
    /\ driver.sockets[n].readyState = "CLOSED"
    /\ ~driver.sockets[n].clientClosed

\* C2: while the driver dashboard stays mounted with its driver, an unexpected
\* close of the driver's socket leads to a new connection attempt for the
\* same driver id.
C2_CloseLeadsToReconnect ==
    \A n \in 1..(MaxSockets - 1) :
        UnexpectedlyClosed(n)
        ~> (\/ ~driver.mounted
            \/ /\ Len(driver.sockets) > n
               /\ driver.sockets[n + 1].driverId = driver.user.id)

\* The driver's socket that is open, 0 when none is.
OpenSocket ==
    IF \E i \in SocketIds : driver.sockets[i].readyState = "OPEN"
    THEN CHOOSE i \in SocketIds : driver.sockets[i].readyState = "OPEN"
    ELSE 0

\* C4: a position sample the watcher delivers while the driver's socket is
\* open adds exactly one message on that socket with the sample's latitude
\* and longitude and a timestamp; with no socket open nothing is sent.
C4_SampleSentOnce ==
    \A c \in Samples :
        (driver.mounted /\ driver.watchers > 0) =>
            LET out == onSample(driver, FirstRender, c).sent
            IN IF OpenSocket # 0
               THEN /\ Len(out) = Len(driver.sent) + 1
                    /\ SubSeq(out, 1, Len(driver.sent)) = driver.sent
                    /\ out[Len(out)].socket = OpenSocket
                    /\ out[Len(out)].message.latitude = c.latitude
                    /\ out[Len(out)].message.longitude = c.longitude
                    /\ out[Len(out)].message.timestamp = Now
               ELSE out = driver.sent

\* C15: a delivery_assigned message on the driver's open socket starts
\* exactly one reload of the delivery list; a location_ack, a message of
\* another type and an unparsable message start none and leave the list
\* state as it is.
C15_AssignedReloadsOnce ==
    (\E i \in SocketIds : driver.sockets[i].readyState = "OPEN")
    => \A e \in DriverMessages :
          onmessage(cards, e) =
             IF e.parsable /\ e.type = "delivery_assigned"
             THEN [cards EXCEPT !.loads = @ + 1]
             ELSE cards

\* C15 witness: with the socket open, a reload started by a message is
\* awaited besides the one of the focus effect.
C15_Witness ==
    /\ \E i \in SocketIds : driver.sockets[i].readyState = "OPEN"
    /\ driver.startup = "done"
    /\ cards.loads >= 2

\* The driver's socket n exists and has the given readyState.
SocketIs(n, state) ==
    Len(driver.sockets) >= n /\ driver.sockets[n].readyState = state

\* C16: while the dashboard's socket stays open the client sends a message on it
\* (a heartbeat or data) again and again: an open socket leads to a message
\* sent on it, unless it stops being open.
C16_OpenSocketSends ==
    \A n \in 1..MaxSockets :
        (driver.mounted /\ SocketIs(n, "OPEN"))
        ~> (\/ ~driver.mounted \/ ~SocketIs(n, "OPEN")
            \/ \E k \in 1..Len(driver.sent) : driver.sent[k].socket = n)

C20_TimeoutWhileConnecting ==
    /\ [](\A i \in SocketIds :
             driver.sockets[i].timeout <=> driver.sockets[i].readyState = "CONNECTING")
    /\ \A n \in 1..MaxSockets :
          SocketIs(n, "CONNECTING") ~> ~SocketIs(n, "CONNECTING")

\* C20 witness: the timeout has closed a socket that never opened (only the
\* timeout calls close() on a socket the websocket cell does not hold).
C20_Witness ==
    /\ driver.mounted /\ driver.websocket = 0
    /\ \E i \in SocketIds :
          /\ driver.sockets[i].readyState = "CLOSING"
          /\ driver.sockets[i].clientClosed /\ ~driver.sockets[i].timeout

\* C21: the driver dashboard never has more than one location watch, counting
\* a watchPositionAsync still awaited, and startLocationTracking called
\* while locationSubscription holds a subscription asks for no other one.
C21_OneWatch ==
    /\ driver.watchers + (IF driver.watchRequest THEN 1 ELSE 0) <= 1
    /\ driver.locationSubscription => startLocationTracking(driver) = driver

\* C21 witness: the mounted dashboard holds the subscription its timer asked
\* for, and the watch delivers.
C21_Witness ==
    /\ driver.mounted /\ driver.locationSubscription /\ driver.isLocationTracking
    /\ driver.watchers = 1 /\ ~driver.trackTimer /\ ~driver.watchRequest

\* C22: handleLogin and handleRegister send no request while a field they
\* require is empty; an answer that is ok stores the token and the user
\* record and shows the dashboard of the user's role; a rejection and a
\* network error leave the storage as it is and the login screen shown; and
\* no step with the login screen shown changes the storage without leaving
\* the screen.
C22_LoginStoresOnlyOnOk ==
    /\ [](/\ (~login.email \/ ~login.password) => handleLogin(login) = login
          /\ (~login.email \/ ~login.password \/ ~login.name \/ ~login.phone)
                => handleRegister(login) = login
          /\ (route = LoginRoute /\ login.request # None) =>
                \A o \in AuthOutcomes(login) :
                   IF o.kind = "ok"
                   THEN /\ getItem(StoreLogin(storage, o), "authToken") = TokenItem
                        /\ Parse(getItem(StoreLogin(storage, o), "user")) = o.user
                        /\ RouteAfterLogin(o) \in {DriverRoute, AdminRoute}
                   ELSE /\ StoreLogin(storage, o) = storage
                        /\ RouteAfterLogin(o) = LoginRoute)
    /\ [][(route = LoginRoute /\ storage' # storage)
             => (login.request # None /\ route' # LoginRoute)]_vars

\* C22 witness: a registration as admin over an empty storage was answered
\* ok: the token and the user are stored and the admin dashboard is shown.
C22_Witness ==
    /\ route = AdminRoute
    /\ getItem(storage, "authToken") = TokenItem
    /\ getItem(storage, "user") = Stringify(AdminAccount)
    /\ getItem(storage, "userData") = NoItem

\* The storage holds a token and, under userData, a user of the given role.
StoredRole(st, role) ==
    /\ getItem(st, "authToken") # NoItem
    /\ getItem(st, "userData") # NoItem
    /\ Parse(getItem(st, "userData")).role = role

\* What the dashboards have asked of the server or of the device: requests
\* awaited or answered, the staged start-up, the location watch, sockets.
DriverWorks(d, c) ==
    \/ c.loads > 0 \/ c.deliveries # NoDeliveries
    \/ d.startup # None \/ d.timer500 \/ d.timer1000 \/ d.locating # None
    \/ d.trackTimer \/ d.watchRequest \/ d.watchers > 0 \/ d.locationSubscription
    \/ d.sockets # <<>> \/ d.reconnectTimers > 0
SimpleWorks(x) == x.loads > 0 \/ x.requests # {} \/ x.deliveries # NoDeliveries
AdminWorks(a) ==
    \/ a.loads > 0 \/ a.driverLoads > 0 \/ a.deliveries # NoDeliveries
    \/ a.driversLoaded

\* C23: a dashboard works (loads, location, socket) only with the user its
\* check has set, whose role is the dashboard's; the check sets the user
\* only from a storage that holds a token and a user record of that role;
\* and with any other storage the check shows '/' and the dashboard has
\* asked for nothing.
C23_WorkOnlyForRole ==
    /\ [](/\ DriverWorks(driver, cards) => driver.user.role = "driver"
          /\ SimpleWorks(simple) => simple.user.role = "driver"
          /\ AdminWorks(admin) => admin.user.role = "admin")
    /\ [][/\ (driver.user = NoUser /\ driver'.user # NoUser)
                => StoredRole(storage, "driver")
                   /\ driver'.user = Parse(getItem(storage, "userData"))
          /\ (simple.user = NoUser /\ simple'.user # NoUser)
                => StoredRole(storage, "driver")
                   /\ simple'.user = Parse(getItem(storage, "userData"))
          /\ (admin.user = NoUser /\ admin'.user # NoUser)
                => StoredRole(storage, "admin")
                   /\ admin'.user = Parse(getItem(storage, "userData"))
          /\ (route = DriverRoute /\ ~driver.checked
                  /\ ~StoredRole(storage, "driver"))
                => route' = LoginRoute /\ ~DriverWorks(driver', cards')
          /\ (route = SimpleRoute /\ ~simple.checked
                  /\ ~StoredRole(storage, "driver"))
                => route' = LoginRoute /\ ~SimpleWorks(simple')
          /\ (route = AdminRoute /\ ~admin.checked
                  /\ ~StoredRole(storage, "admin"))
                => route' = LoginRoute /\ ~AdminWorks(admin')]_vars

\* C23 witness: the driver dashboard, opened over a driver's session, has
\* loaded its list, started the location watch and opened its socket.
C23_Witness ==
    /\ route = DriverRoute /\ driver.user = DriverAccount
    /\ cards.deliveries # NoDeliveries
    /\ driver.watchers = 1
    /\ driver.websocket # 0 /\ IsOpen(driver, driver.websocket)

\* The driver has confirmed the logout: the items are removed and the
\* dashboard is gone.
LoggedOut ==
    /\ ~driver.mounted /\ driver.user # NoUser
    /\ getItem(storage, "authToken") = NoItem

\* C25: after the driver's logout no step of the dashboard's pending timers
\* and awaits asks for a location watch, starts one or makes a socket.
C25_NothingStartsAfterLogout ==
    [][LoggedOut =>
          /\ Len(driver'.sockets) <= Len(driver.sockets)
          /\ driver'.watchers <= driver.watchers
          /\ driver'.watchRequest => driver.watchRequest]_vars

\* C27: the step that unmounts the driver dashboard leaves every socket that
\* was open closing or closed, and no location watch delivering.
C27_UnmountReleases ==
    [][(driver.mounted /\ ~driver'.mounted) =>
          /\ \A i \in SocketIds :
                driver.sockets[i].readyState = "OPEN"
                => driver'.sockets[i].readyState \in {"CLOSING", "CLOSED"}
          /\ driver'.watchers = 0 /\ ~driver'.locationSubscription]_vars

(***************************************************************************)
(* Driver dashboards' cards: claims.                                       *)
(***************************************************************************)

\* C7: on every path of the driver dashboard (a card's Complete button, the
\* map modal's Complete button) completeDelivery is called, and the
\* completion request sent, only for a delivery the dashboard shows as
\* in_transit.
C7_CompleteOnlyInTransit ==
    /\ cards.confirm # NoDelivery => cards.confirm.status = "in_transit"
    /\ \A r \in cards.requests : r.kind = "complete" => r.status = "in_transit"

\* The successor of a status in assigned -> picked_up -> in_transit -> delivered.
Successor(status) ==
    CASE status = "assigned" -> {"picked_up"}
      [] status = "picked_up" -> {"in_transit"}
      [] status = "in_transit" -> {"delivered"}
      [] OTHER -> {}

\* The statuses the status-changing buttons of a card ask for.
StatusTargets(buttons) ==
    {b.target : b \in {x \in buttons :
                          x.action \in {"updateDeliveryStatus", "completeDelivery"}}}

\* C8: in both driver dashboards the status-changing buttons of every card
\* shown ask exactly for the successor of the card's status (none for
\* pending, delivered, cancelled), and so does every status update in flight.
C8_CardsOfferSuccessor ==
    /\ DriverMainShown =>
         \A i \in Listed(cards) :
            StatusTargets(DriverCardButtons(cards.deliveries[i]))
               = Successor(cards.deliveries[i])
    /\ SimpleMainShown =>
         \A i \in Listed(simple) :
            StatusTargets(SimpleCardButtons(simple.deliveries[i]))
               = Successor(simple.deliveries[i])
    /\ \A r \in cards.requests \cup simple.requests :
          r.kind = "status" => r.target \in Successor(r.status)

\* C8 witness: the driver dashboard shows a picked-up delivery and has sent
\* the update to in_transit its card offers.
C8_Witness ==
    /\ DriverMainShown
    /\ \E i \in Listed(cards) : cards.deliveries[i] = "picked_up"
    /\ \E r \in cards.requests :
          r.kind = "status" /\ r.status = "picked_up" /\ r.target = "in_transit"

\* The requests of list state c2 that list state c1 does not hold.
NewRequests(c1, c2) == c2.requests \ c1.requests

\* C13: an invocation of startNavigation issues at most one request, the
\* route calculation; the navigation start is issued only by a route answer
\* that says success; navigationActive becomes true only by a navigation
\* start that succeeded.
C13_NavigationInOrder ==
    /\ [](DriverMainShown =>
            \A id \in Listed(cards) :
               LET new == NewRequests(cards, startNavigation(cards, driver.userLocation, id))
               IN Cardinality(new) <= 1 /\ \A q \in new : q.kind = "route")
    /\ [](\A r \in cards.requests :
            /\ r.kind = "route" =>
                  \A q \in NewRequests(cards, onRouteResponse(cards, r, FALSE)) :
                      q.kind # "navigation"
            /\ r.kind = "navigation" =>
                  onNavigationResponse(cards, r, FALSE).navigationActive
                     = cards.navigationActive)
    /\ [][/\ \A q \in NewRequests(cards, cards') :
                q.kind = "navigation" =>
                   \E r \in NewRequests(cards', cards) : r.kind = "route" /\ r.id = q.id
          /\ (~cards.navigationActive /\ cards'.navigationActive) =>
                   \E n \in NewRequests(cards', cards) : n.kind = "navigation"]_vars

\* C13 witness: a navigation has been started: the modal is open on the
\* delivery and navigationActive is set.
C13_Witness ==
    /\ cards.navigationActive /\ cards.mapModalVisible
    /\ cards.selectedDelivery # NoDelivery
    /\ cards.requests = {}

\* C14: a route calculation that fails or answers success = false sends no
\* other request, leaves navigationActive, selectedDelivery, mapModalVisible
\* and the delivery list as they are, and ends loading.
C14_RouteFailureLeavesState ==
    \A r \in cards.requests :
        r.kind = "route" =>
            LET c == onRouteResponse(cards, r, FALSE)
            IN /\ NewRequests(cards, c) = {}
               /\ c.navigationActive = cards.navigationActive
               /\ c.selectedDelivery = cards.selectedDelivery
               /\ c.mapModalVisible = cards.mapModalVisible
               /\ c.deliveries = cards.deliveries
               /\ ~c.loading

\* C14 witness: startNavigation awaits the route of a delivery in transit.
C14_Witness ==
    /\ cards.loading
    /\ \E r \in cards.requests : r.kind = "route" /\ r.status = "in_transit"

\* The states of the delivery lifecycle.
LifecycleStates ==
    {"created", "assigned", "picked_up", "in_transit", "delivered", "cancelled"}

\* C19: every status a driver screen (dashboard.tsx, simple-dashboard.tsx,
\* the dashboard of part_001) sends in a status-update request is a state of
\* the delivery lifecycle.
C19_StatusInLifecycle ==
    \A r \in cards.requests \cup simple.requests \cup legacy.requests :
        r.kind = "status" => r.target \in LifecycleStates

(***************************************************************************)
(* Admin dashboard: claims.                                                *)
(***************************************************************************)

\* C9: an assign request carries the id of the delivery whose 'Assign Driver'
\* button the admin pressed, and that delivery was shown as pending then.
C9_AssignCarriesPressed ==
    admin.assignRequest # NoDelivery
    => /\ admin.assignRequest.id = admin.pressed.id
       /\ admin.pressed.status = "pending"

\* C12: pressing 'Create' sends the create request exactly when the customer
\* name, a contact method (phone or email) and both addresses are filled,
\* and sends none (an alert reports the error) when one of them is missing.
C12_CreateSentIffValid ==
    (AdminMainShown /\ admin.createModalVisible /\ ~admin.loading
       /\ admin.createRequest = EmptyForm)
    => LET f == admin.formData
           valid == /\ f["customer_name"]
                    /\ f["customer_phone"] \/ f["customer_email"]
                    /\ f["pickup_address"] /\ f["delivery_address"]
       IN IF valid
          THEN createDelivery(admin).createRequest = f
          ELSE createDelivery(admin) = admin

====
